---- MODULE Spec2Model ----
(***************************************************************************)
(* EHCI root-hub port state controller (drivers/usb/host/ehci-hub.c).      *)
(*                                                                         *)
(* Registers are modelled as sets of bit names: `x & ~M` is `x \ M`,       *)
(* `x | M` is `x \cup M`, `x & M` is `x \cap M`.  Every handler is an      *)
(* operator from a state record (all fields of the controller, its         *)
(* registers and the outputs of the call) to a state record, so handlers   *)
(* compose the way the C functions call each other.                        *)
(***************************************************************************)
EXTENDS Integers, Sequences, FiniteSets, TLC

(* ------------------------------ bounds -------------------------------- *)

\* number of root-hub ports, HCS_N_PORTS(ehci->hcs_params)
NPorts == 8

\* length of one jiffy in milliseconds (1000 / HZ)
JiffyMs == 10

Ports == 0 .. (NPorts - 1)

(* --------------------------- register bits ---------------------------- *)

PORT_RWC_BITS == {"CSC", "PEC", "OCC"}

PORT_WAKE_BITS == {"WKOC_E", "WKDISC_E", "WKCONN_E"}

\* (3<<10): the two line-status bits; PORT_USB11 is line status 01b (K state)
PORT_LS_BITS == {"LS0", "LS1"}

PORT_USB11(x) == (x \cap PORT_LS_BITS) = {"LS0"}

\* port test control field, bits 16..18 written by `selector << 16`
PORT_TEST_BITS == {"T16", "T17", "T18"}

PORT_LPM_BITS == {"LPM", "DEV_ADDR"}

PortBits ==
    {"CONNECT", "CSC", "PE", "PEC", "OC", "OCC", "RESUME", "SUSPEND", "RESET",
     "POWER", "OWNER"} \cup PORT_WAKE_BITS \cup PORT_LS_BITS \cup PORT_TEST_BITS
    \cup PORT_LPM_BITS

Bit(cond, name) == IF cond THEN {name} ELSE {}

\* selector << 16 as bits of the port test control field
SelectorBits(selector) ==
    Bit(selector % 2 = 1, "T16") \cup Bit((selector \div 2) % 2 = 1, "T17")
    \cup Bit((selector \div 4) % 2 = 1, "T18")

(* ------------------------------- time --------------------------------- *)

\* The clock is kept in a frame that moves with it: jiffies is the origin
\* of that frame and the passing of time shifts every recorded deadline
\* towards it (see Elapse).  A deadline of 0 is "none", as in the code.
jiffies == 1

msecs_to_jiffies(m) == (m + JiffyMs - 1) \div JiffyMs

time_after_eq(a, b) == a >= b

DeviceKinds == {"none", "hs", "fs", "ls"}


(* ------------------------------- state -------------------------------- *)

VARIABLES
    cfg,              \* controller capabilities and erratum flags (fixed at attach)
    dev,              \* what is plugged into each port (the physical world)
    portsc,           \* regs->port_status[]
    hostpc,           \* HOSTPC_PHCD of each port's HOSTPC register
    hc_run,           \* CMD_RUN of regs->command
    ppcd,             \* the per-port change detect bits of regs->status
    intr_enable,      \* regs->intr_enable
    hw_accessible,    \* HCD_HW_ACCESSIBLE(hcd)
    command_run,      \* CMD_RUN of the shadow ehci->command
    rh_state,         \* ehci->rh_state
    bus_suspended,    \* ehci->bus_suspended
    owned_ports,      \* ehci->owned_ports
    suspended_ports,  \* ehci->suspended_ports
    resuming_ports,   \* ehci->resuming_ports
    port_c_suspend,   \* ehci->port_c_suspend
    reset_done,       \* ehci->reset_done[]
    op,               \* the entry point that ran last, with its arguments
    ret,              \* its return value
    buf,              \* what it wrote to the caller's buffer
    io,               \* the register accesses it made
    suspend_shown,    \* history: the ports recorded as suspended whose register
                      \* has shown suspend or resume since they were recorded
    reset_due,        \* history: of each port whose register shows reset, the
                      \* deadline that SetPortFeature(RESET) recorded for it
    pending,          \* the call that sleeps with the lock released, if any
    lock,             \* ehci->lock is held by the call
    sync,             \* what the call did with the lock held and without
    notifier          \* the state notifier (state_notifier.c)

\* the host controller driver and its hardware
hubVars ==
    <<cfg, dev, portsc, hostpc, hc_run, ppcd, intr_enable, hw_accessible, command_run,
      rh_state, bus_suspended, owned_ports, suspended_ports, resuming_ports,
      port_c_suspend, reset_done, op, ret, buf, io, suspend_shown, reset_due,
      pending, lock, sync>>

vars == <<hubVars, notifier>>

\* the caller's buffer: not written, or what the call put there
NoBuf == [kind |-> "untouched", status |-> {}, desc |-> <<>>]

\* The state as one record, the argument and result of every handler.
St ==
    [cfg |-> cfg, dev |-> dev, portsc |-> portsc, hostpc |-> hostpc,
     hc_run |-> hc_run, ppcd |-> ppcd, intr_enable |-> intr_enable,
     hw_accessible |-> hw_accessible, command_run |-> command_run,
     rh_state |-> rh_state, bus_suspended |-> bus_suspended,
     owned_ports |-> owned_ports, suspended_ports |-> suspended_ports,
     resuming_ports |-> resuming_ports, port_c_suspend |-> port_c_suspend,
     reset_done |-> reset_done, reset_due |-> reset_due,
     ret |-> "0", buf |-> NoBuf, io |-> {}, lock |-> FALSE, sync |-> {}]

\* the history after a step to r: a recorded suspend has been shown if the
\* register shows it now, or if it had been shown and is still recorded
ShownAfter(r) ==
    {p \in r.suspended_ports :
        \/ (r.portsc[p] \cap {"SUSPEND", "RESUME"}) # {}
        \/ p \in suspended_ports /\ p \in suspend_shown}

\* the history after a step to r: the deadline of a reset is kept for as
\* long as the register shows the reset
DueAfter(r) ==
    [q \in Ports |-> IF "RESET" \in r.portsc[q] THEN r.reset_due[q] ELSE 0]

\* The driver and the hardware are as in the record r, after entry point o.
Lands(r, o) ==
    /\ cfg' = r.cfg
    /\ dev' = r.dev
    /\ portsc' = r.portsc
    /\ hostpc' = r.hostpc
    /\ hc_run' = r.hc_run
    /\ ppcd' = r.ppcd
    /\ intr_enable' = r.intr_enable
    /\ hw_accessible' = r.hw_accessible
    /\ command_run' = r.command_run
    /\ rh_state' = r.rh_state
    /\ bus_suspended' = r.bus_suspended
    /\ owned_ports' = r.owned_ports
    /\ suspended_ports' = r.suspended_ports
    /\ resuming_ports' = r.resuming_ports
    /\ port_c_suspend' = r.port_c_suspend
    /\ reset_done' = r.reset_done
    /\ op' = o
    /\ ret' = r.ret
    /\ buf' = r.buf
    /\ io' = r.io
    /\ suspend_shown' = ShownAfter(r)
    /\ reset_due' = DueAfter(r)
    /\ lock' = r.lock
    /\ sync' = r.sync
    /\ UNCHANGED notifier

\* The next state is the record r, after entry point o, which ran from its
\* start to its return.
Becomes(r, o) ==
    /\ Lands(r, o)
    /\ UNCHANGED pending

(* ------------------------ the port hardware --------------------------- *)

\* line status of an attached, not-enabled device: K state for low speed,
\* J state otherwise
LineStatus(d) == IF d = "ls" THEN {"LS0"} ELSE {"LS1"}

\* The port register after a write of val over old, with device d attached.
\* ppc: per-port power switching exists.  ok: the hardware completes a
\* requested end of reset or of resume signalling within the handshake time.
PortWrite(old, val, d, ppc, ok) ==
    LET power   == IF ppc THEN "POWER" \in val ELSE "POWER" \in old
        \* the controller won't set OWNER while the port is enabled
        owner   == "OWNER" \in val /\ ("OWNER" \in old \/ "PE" \notin old)
        live    == power /\ ~owner
        connect == live /\ d # "none"
        reset   == live /\ ("RESET" \in val \/ ("RESET" \in old /\ ~ok))
        enable  == /\ connect
                   /\ ~reset
                   /\ IF "RESET" \in old THEN d = "hs"
                      ELSE "PE" \in old /\ "PE" \in val
        resEnd  == "RESUME" \in old /\ "RESUME" \notin val /\ ok
        resume  == /\ enable
                   /\ "SUSPEND" \in old
                   /\ ("RESUME" \in val \/ ("RESUME" \in old /\ ~ok))
        suspend == enable /\ ~resEnd /\ ("SUSPEND" \in old \/ "SUSPEND" \in val)
        edge    == power /\ (connect # ("CONNECT" \in old))
    IN  Bit(power, "POWER") \cup Bit(owner, "OWNER") \cup Bit(connect, "CONNECT")
        \cup Bit(reset, "RESET") \cup Bit(enable, "PE") \cup Bit(resume, "RESUME")
        \cup Bit(suspend, "SUSPEND")
        \cup Bit(edge \/ ("CSC" \in old /\ "CSC" \notin val), "CSC")
        \cup Bit("PEC" \in old /\ "PEC" \notin val, "PEC")
        \cup Bit("OCC" \in old /\ "OCC" \notin val, "OCC")
        \cup (old \cap {"OC"})
        \cup (IF connect /\ ~enable THEN LineStatus(d) ELSE {})
        \cup (IF power THEN val \cap PORT_WAKE_BITS ELSE {})
        \cup (val \cap (PORT_TEST_BITS \cup PORT_LPM_BITS))

\* the register of a port this controller drives, when device d is plugged
\* in or pulled out
PortAttach(old, d) ==
    IF "POWER" \notin old \/ "OWNER" \in old THEN old
    ELSE IF d = "none"
         THEN (old \ ({"CONNECT", "PE", "SUSPEND", "RESUME"} \cup PORT_LS_BITS))
              \cup {"CSC"}
         ELSE old \cup {"CONNECT", "CSC"} \cup LineStatus(d)


\* The per-port change detect bits, on a controller that has them, when the
\* register of port p goes from old to new: the bit of the port is set when
\* a change latch of the port, or resume signalling detected on it, goes
\* from 0 to 1.  watched: the bits that count.
PortChangeDetect(s, p, old, new, watched) ==
    IF s.cfg.has_ppcd /\ ((new \cap watched) \ old) # {}
    THEN s.ppcd \cup {p} ELSE s.ppcd

\* the register when an over-current condition appears or goes away
PortOverCurrent(old) ==
    (IF "OC" \in old THEN old \ {"OC"} ELSE old \cup {"OC"}) \cup {"OCC"}

\* the register when the hardware disables the port on a port error
PortError(old, d) ==
    (old \ {"PE", "SUSPEND", "RESUME"}) \cup {"PEC"} \cup LineStatus(d)


\* the register when the hardware disables a suspended port on a fault: a
\* disabled port may show the suspend bit either way, here it is left set
PortFault(old, d) ==
    (old \ {"PE", "RESUME"}) \cup {"PEC"} \cup LineStatus(d)


(* ------------------------- register access ---------------------------- *)
(* A value that is used more than once is named the strict way: in         *)
(* `[x \in {e} |-> body][e]` and in `CHOOSE r \in {body : x \in {e}} : TRUE` *)
(* x is the value of e, computed once, and the result is body.             *)

\* The call takes note of something it does, a wait or a register access
\* or taking or dropping the lock, and of whether it holds ehci->lock then.
Sync(s, kind) == [s EXCEPT !.sync = @ \cup {<<kind, s.lock>>}]

\* spin_lock_irqsave(&ehci->lock, flags), spin_lock_irq(&ehci->lock)
spin_lock(s) == [Sync(s, "lock") EXCEPT !.lock = TRUE]

\* faulty variant: the lock is kept
spin_unlock_Kept(s) == s

\* spin_unlock_irqrestore(&ehci->lock, flags), spin_unlock_irq(&ehci->lock)
spin_unlock(s) == [Sync(s, "unlock") EXCEPT !.lock = FALSE]

\* a register access made by a call: <<"r" or "w", register, index>>
Access(kind, reg, i) == <<kind, reg, i>>

\* ehci_readl(): the access is recorded, the value is read from the record
Rd(s0, reg, i) ==
    CHOOSE r \in {[s EXCEPT !.io = @ \cup {Access("r", reg, i)},
                            !.sync = @ \cup {<<"access", s.lock>>}] :
                    s \in {s0}} : TRUE

\* ehci_writel() to regs->port_status[p]
WrPort(s0, p, val, ok) ==
    CHOOSE r \in
        {[s EXCEPT !.portsc[p] = PortWrite(@, v, s.dev[p], s.cfg.ppc, ok),
                   !.ppcd = PortChangeDetect(
                                s, p, s.portsc[p],
                                PortWrite(s.portsc[p], v, s.dev[p], s.cfg.ppc, ok),
                                PORT_RWC_BITS),
                   !.io = @ \cup {Access("w", "portsc", p)},
                   !.sync = @ \cup {<<"access", s.lock>>}] :
            s \in {s0}, v \in {val}} : TRUE

\* ehci_writel() of HOSTPC_PHCD to a port's HOSTPC register, read-modify-write
WrHostpc(s0, p, phcd) ==
    CHOOSE r \in
        {[s EXCEPT !.hostpc[p] = phcd,
                   !.io = @ \cup {Access("r", "hostpc", p),
                                  Access("w", "hostpc", p)},
                   !.sync = @ \cup {<<"access", s.lock>>}] : s \in {s0}} : TRUE

\* ehci_writel() of CMD_RUN to regs->command, read-modify-write
WrCommandRun(s0, run) ==
    CHOOSE r \in
        {[s EXCEPT !.hc_run = run,
                   !.io = @ \cup {Access("r", "command", 0),
                                  Access("w", "command", 0)},
                   !.sync = @ \cup {<<"access", s.lock>>}] : s \in {s0}} : TRUE

\* handshake(): after the write that asks for it, is the bit clear in time?
handshake(s, p, bit) == bit \notin s.portsc[p]

\* handshake() polls the register, with udelay(1) between the reads
Polled(s) == Sync(s, "poll")

\* udelay(): a busy wait
udelay(s) == Sync(s, "delay")

\* n jiffies pass: in the clock's frame every deadline moves n closer and
\* stops at jiffies, where it has elapsed
Elapse(s0, n) ==
    CHOOSE r \in
        {[s EXCEPT !.reset_done =
            [q \in Ports |->
                IF s.reset_done[q] = 0 THEN 0
                ELSE IF s.reset_done[q] - n < jiffies THEN jiffies
                ELSE s.reset_done[q] - n],
                   !.reset_due =
            [q \in Ports |->
                IF s.reset_due[q] = 0 THEN 0
                ELSE IF s.reset_due[q] - n < jiffies THEN jiffies
                ELSE s.reset_due[q] - n]] : s \in {s0}} : TRUE

\* msleep(), usleep_range(): the caller sleeps
msleep(s, ms) == Elapse(Sync(s, "sleep"), msecs_to_jiffies(ms))

\* HCS_N_PORTS(ehci->hcs_params)
HCS_N_PORTS(s) == s.cfg.n_ports

\* faulty variant: the error is dropped
Stall_Ignored(s) == s

\* "stall" on error
Stall(s) == [s EXCEPT !.ret = "-EPIPE"]

(* ---------------------------- hub_control ----------------------------- *)

\* faulty variant: the acknowledging write leaves the latch bit out
AckBit_Masked(temp, bit) == temp \ PORT_RWC_BITS

\* the value written to acknowledge one change latch: the other
\* write-one-to-clear bits are masked, the latch itself is written as one
AckBit(temp, bit) == (temp \ PORT_RWC_BITS) \cup {bit}

\* faulty variant: every port is taken to be suspended
PortSuspended_Always(temp) == TRUE

\* ClearPortFeature(SUSPEND): "if (!(temp & PORT_SUSPEND)) break;"
PortSuspended(temp) == "SUSPEND" \in temp

\* faulty variant: the wake enables stay as they were
ResumeValue_WakeKept(temp) == (temp \ PORT_RWC_BITS) \cup {"RESUME"}

\* ClearPortFeature(SUSPEND): "temp &= ~(PORT_RWC_BITS | PORT_WAKE_BITS);"
\* and the value written, "temp | PORT_RESUME"
ResumeValue(temp) == (temp \ (PORT_RWC_BITS \cup PORT_WAKE_BITS)) \cup {"RESUME"}

\* ClearPortFeature(SUSPEND), up to where the lock is released: "clear phy
\* low-power mode before resume"
ResumePrepared(s, wIndex) ==
    IF s.cfg.has_hostpc THEN spin_unlock(WrHostpc(s, wIndex, FALSE)) ELSE s

\* ClearPortFeature(SUSPEND), from there: the sleep "to leave low-power
\* mode", then "resume signaling for 20 msec", written from the port status
\* temp that was read before the sleep
ResumeSignalled(s0, wIndex, temp) ==
    CHOOSE r \in
        {[s2 EXCEPT !.reset_done[wIndex] = jiffies + msecs_to_jiffies(20)] :
            s2 \in {WrPort(IF s0.cfg.has_hostpc THEN spin_lock(msleep(s0, 5))
                           ELSE s0,
                           wIndex, ResumeValue(temp), TRUE)}} : TRUE

\* case ClearPortFeature, after the port index check; wIndex is zero-based
ClearPortFeature(s0, wValue, wIndex) ==
    LET e == Rd(s0, "portsc", wIndex) IN
    [s \in {e} |->
        LET temp == s.portsc[wIndex]
            done(x) == Rd(x, "command", 0)    \* unblock posted write
        IN  CASE wValue = "ENABLE" ->
                    done(WrPort(s, wIndex, temp \ {"PE"}, TRUE))
              [] wValue = "C_ENABLE" ->
                    done(WrPort(s, wIndex, AckBit(temp, "PEC"), TRUE))
              [] wValue = "SUSPEND" ->
                    IF "RESET" \in temp THEN Stall(s)
                    ELSE IF s.cfg.no_selective_suspend THEN done(s)
                    ELSE IF ~PortSuspended(temp) THEN done(s)
                    ELSE IF "PE" \notin temp THEN Stall(s)
                    ELSE done(ResumeSignalled(ResumePrepared(s, wIndex),
                                              wIndex, temp))
              [] wValue = "C_SUSPEND" ->
                    done([s EXCEPT !.port_c_suspend = @ \ {wIndex}])
              [] wValue = "POWER" ->
                    IF s.cfg.ppc
                    THEN done(WrPort(s, wIndex,
                                     temp \ (PORT_RWC_BITS \cup {"POWER"}), TRUE))
                    ELSE done(s)
              [] wValue = "C_CONNECTION" ->
                    LET t1 == IF s.cfg.has_lpm THEN temp \ PORT_LPM_BITS ELSE temp
                    IN  done(WrPort(s, wIndex, AckBit(t1, "CSC"), TRUE))
              [] wValue = "C_OVER_CURRENT" ->
                    done(WrPort(s, wIndex, AckBit(temp, "OCC"), TRUE))
              [] wValue = "C_RESET" ->
                    done(s)     \* GetPortStatus clears reset
              [] OTHER -> Stall(s)
    ][e]


\* ehci_quiesce(): stop the schedules (no port register is touched)
ehci_quiesce(s) ==
    [Polled(Sync(s, "access")) EXCEPT
        !.io = @ \cup {Access("r", "status", 0), Access("r", "command", 0),
                       Access("w", "command", 0)}]

\* ehci_halt(): mask the interrupts, clear CMD_RUN and wait for STS_HALT
ehci_halt(s0) ==
    CHOOSE r \in
        {IF s.hc_run
         THEN [Polled(Sync(s, "access")) EXCEPT
                        !.intr_enable = "none", !.hc_run = FALSE,
                        !.io = @ \cup {Access("r", "status", 0),
                                       Access("w", "intr_enable", 0),
                                       Access("r", "command", 0),
                                       Access("w", "command", 0)}]
         ELSE [Sync(s, "access") EXCEPT
                        !.intr_enable = "none",
                        !.io = @ \cup {Access("r", "status", 0),
                                       Access("w", "intr_enable", 0)}] :
            s \in {s0}} : TRUE

\* SetPortFeature(TEST): "while (ports--)" puts all enabled ports into suspend
RECURSIVE TestSuspendPorts(_, _)
TestSuspendPorts(s, ports) ==
    IF ports = 0 THEN s
    ELSE LET p == ports - 1
             e == Rd(s, "portsc", p)
         IN  [s1 \in {e} |->
                 LET temp == s1.portsc[p] \ PORT_RWC_BITS
                 IN  TestSuspendPorts(
                         IF "PE" \in temp
                         THEN WrPort(s1, p, temp \cup {"SUSPEND"}, TRUE)
                         ELSE s1,
                         p)
             ][e]

\* faulty variant: every port is reset
ResetHandoff_Never(s, temp) == FALSE

\* SetPortFeature(RESET) on a port whose line state shows a low-speed
\* device that is connected and not enabled: hand it to the companion
ResetHandoff(s, temp) ==
    /\ (temp \cap {"PE", "CONNECT"}) = {"CONNECT"}
    /\ ~s.cfg.tdi
    /\ PORT_USB11(temp)

\* SetPortFeature(SUSPEND), up to where the lock is released: the suspend
\* bit and the wakeup enables are written
SuspendWritten(s, wIndex, temp) ==
    LET \* port gets suspended as part of bus suspend routine
        s1 == IF ~s.cfg.susp_sof_bug
              THEN WrPort(s, wIndex, temp \cup {"SUSPEND"}, TRUE)
              ELSE s
        t1 == (temp \ {"WKCONN_E"}) \cup {"WKDISC_E", "WKOC_E"}
        s2 == IF s.cfg.susp_sof_bug
              THEN WrPort(s1, wIndex, t1, TRUE)
              ELSE WrPort(s1, wIndex, t1 \cup {"SUSPEND"}, TRUE)
    IN  IF s.cfg.has_hostpc THEN spin_unlock(s2) ELSE s2

\* SetPortFeature(SUSPEND), from there: the sleep "for HCD enter low pwr
\* mode" and the phy low-power bit, then the port is recorded as suspended
SuspendRecorded(s0, wIndex) ==
    CHOOSE r \in
        {[s3 EXCEPT !.suspended_ports = @ \cup {wIndex}] :
            s3 \in {IF s0.cfg.has_hostpc
                    THEN WrHostpc(spin_lock(msleep(s0, 5)), wIndex, TRUE)
                    ELSE s0}} : TRUE

\* faulty variant: only a port in reset refuses to be suspended
SuspendRefused_InResetOnly(temp) == "RESET" \in temp

\* SetPortFeature(SUSPEND): "if ((temp & PORT_PE) == 0 || (temp & PORT_RESET)
\* != 0) goto error;"
SuspendRefused(temp) == "PE" \notin temp \/ "RESET" \in temp

\* faulty variant: SetPortFeature does not look at PORT_OWNER
PortOwned_Ignored(temp) == FALSE

\* SetPortFeature: "if (temp & PORT_OWNER) break;"
PortOwned(temp) == "OWNER" \in temp

\* case SetPortFeature, after the port index check; wIndex is zero-based.
\* ok: the hardware ends the reset when the erratum path asks it to.
SetPortFeature(s0, wValue, wIndex, selector, ok) ==
    LET e == Rd(s0, "portsc", wIndex) IN
    [s \in {e} |->
        LET temp0 == s.portsc[wIndex]
            temp == temp0 \ PORT_RWC_BITS
            done(x) == Rd(x, "command", 0)    \* unblock posted writes
        IN  IF PortOwned(temp0) THEN s
            ELSE CASE wValue = "SUSPEND" ->
                    IF s.cfg.no_selective_suspend THEN done(s)
                    ELSE IF SuspendRefused(temp) THEN Stall(s)
                    ELSE done(SuspendRecorded(SuspendWritten(s, wIndex, temp),
                                              wIndex))
                  [] wValue = "POWER" ->
                    IF s.cfg.ppc
                    THEN done(WrPort(s, wIndex, temp \cup {"POWER"}, TRUE))
                    ELSE done(s)
                  [] wValue = "RESET" ->
                    IF "RESUME" \in temp THEN Stall(s)
                    ELSE LET handoff == ResetHandoff(s, temp)
                             t1 == IF handoff THEN temp \cup {"OWNER"}
                                   ELSE (temp \cup {"RESET"}) \ {"PE"}
                             \* caller must wait, then call GetPortStatus
                             s1 == IF handoff THEN s
                                   ELSE [s EXCEPT !.reset_done[wIndex] =
                                                    jiffies + msecs_to_jiffies(50),
                                                  !.reset_due[wIndex] =
                                                    jiffies + msecs_to_jiffies(50)]
                             bug == s.cfg.reset_sof_bug /\ "RESET" \in t1
                             s2 == IF bug
                                   THEN Polled(Rd(WrCommandRun(s1, FALSE),
                                                  "status", 0))
                                   ELSE s1
                             e3 == WrPort(s2, wIndex, t1, TRUE)
                         IN  IF bug /\ s.cfg.enable_ulpi_control
                             THEN [s3 \in {e3} |->
                                     LET a == Rd(spin_lock(msleep(spin_unlock(s3),
                                                                 20)),
                                                 "portsc", wIndex)
                                         b == WrPort(a, wIndex,
                                                s3.portsc[wIndex]
                                                  \ (PORT_RWC_BITS \cup {"RESET"}),
                                                ok)
                                     IN  done(WrCommandRun(b, TRUE))
                                  ][e3]
                             ELSE done(e3)
                  [] wValue = "TEST" ->
                    IF selector # 0 /\ selector <= 5
                    THEN LET e2 == Rd(ehci_halt(TestSuspendPorts(
                                          ehci_quiesce(s), HCS_N_PORTS(s))),
                                      "portsc", wIndex)
                         IN  [s2 \in {e2} |->
                                done(WrPort(s2, wIndex,
                                            s2.portsc[wIndex]
                                              \cup SelectorBits(selector),
                                            TRUE))
                             ][e2]
                    ELSE Stall(s)
                  [] OTHER -> Stall(s)
    ][e]


\* faulty variant: the owner bit is left out of the write
HandoffValue_Kept(port_status) == port_status \ PORT_RWC_BITS

\* check_reset_complete(): "port_status |= PORT_OWNER; port_status &=
\* ~PORT_RWC_BITS;"
HandoffValue(port_status) == (port_status \cup {"OWNER"}) \ PORT_RWC_BITS

\* faulty variant: a port that is not enabled after reset is handed over
\* whether or not a device is connected
check_reset_complete_Unconnected(s, index, port_status) ==
    IF "PE" \notin port_status /\ ~s.cfg.tdi
    THEN [s |-> WrPort(s, index, (port_status \cup {"OWNER"}) \ PORT_RWC_BITS,
                       TRUE),
          temp |-> (port_status \cup {"OWNER"}) \ PORT_RWC_BITS]
    ELSE [s |-> s, temp |-> port_status]

\* faulty variant: a port that is not enabled after reset is kept
check_reset_complete_Kept(s, index, port_status) ==
    [s |-> s, temp |-> port_status]

\* check_reset_complete(): the port status it returns, and the state
check_reset_complete(s, index, port_status) ==
    IF "CONNECT" \notin port_status THEN [s |-> s, temp |-> port_status]
    \* if reset finished and it's still not enabled -- handoff
    ELSE IF "PE" \notin port_status
    THEN IF s.cfg.tdi
         \* with integrated TT, there's nobody to hand it to!
         THEN [s |-> s, temp |-> port_status]
         ELSE LET t1 == HandoffValue(port_status)
              IN  [s |-> WrPort(s, index, t1, TRUE), temp |-> t1]
    ELSE [s |-> s, temp |-> port_status]

\* ehci_port_speed(): the speed bits of the status word
ehci_port_speed(s, wIndex) ==
    IF s.cfg.tdi
    THEN CASE s.dev[wIndex] = "ls" -> {"LOW_SPEED"}
           [] s.dev[wIndex] = "fs" -> {}
           [] OTHER -> {"HIGH_SPEED"}
    ELSE {"HIGH_SPEED"}

\* faulty variant: the port stays marked as resuming
ResumeStopped_FlagKept(s, wIndex) == s

\* clear_bit(wIndex, &ehci->resuming_ports), once resume signaling is stopped
ResumeStopped(s, wIndex) == [s EXCEPT !.resuming_ports = @ \ {wIndex}]

\* faulty variant: the result of the wait is not looked at
TimedOut_Never(s, p, bit) == FALSE

\* GetPortStatus: "retval = handshake(...); if (retval != 0) { ... goto
\* error; }"
TimedOut(s, p, bit) == ~handshake(s, p, bit)

\* faulty variant: the port status keeps the suspend and resume bits
ResumedStatus_Kept(temp) == temp

\* GetPortStatus, resume completed: "temp &= ~(PORT_SUSPEND|PORT_RESUME|
\* (3<<10));"
ResumedStatus(temp) == temp \ ({"SUSPEND", "RESUME"} \cup PORT_LS_BITS)

\* faulty variant: the resume is completed whenever a deadline is recorded
ResumeDue_Early(s, wIndex) == TRUE

\* GetPortStatus: "resume completed?"
ResumeDue(s, wIndex) == time_after_eq(jiffies, s.reset_done[wIndex])

\* GetPortStatus: "whoever resumes must GetPortStatus to complete it!!"
\* g is [s, temp, err]
GetPortStatusResume(g, wIndex, ok) ==
    LET s == g.s
    IN  IF "RESUME" \notin g.temp THEN g
        \* Remote Wakeup received?
        ELSE IF s.reset_done[wIndex] = 0
        THEN [g EXCEPT !.s.reset_done[wIndex] = jiffies + msecs_to_jiffies(20)]
        \* resume completed?
        ELSE IF ResumeDue(s, wIndex)
        THEN LET s1 == [s EXCEPT !.suspended_ports = @ \ {wIndex},
                                 !.port_c_suspend = @ \cup {wIndex},
                                 !.reset_done[wIndex] = 0]
                 \* stop resume signaling
                 t1 == s.portsc[wIndex]
                 s3 == WrPort(Rd(s1, "portsc", wIndex), wIndex,
                              t1 \ (PORT_RWC_BITS \cup {"RESUME"}), ok)
                 e4 == Polled(ResumeStopped(s3, wIndex))
             IN  [s4 \in {e4} |->
                    IF TimedOut(s4, wIndex, "RESUME")
                    THEN [s |-> s4, temp |-> t1, err |-> TRUE]
                    ELSE [s |-> s4,
                          temp |-> ResumedStatus(t1),
                          err |-> FALSE]
                 ][e4]
        ELSE g

\* GetPortStatus: "whoever resets must GetPortStatus to complete it!!"
\* g is [s, temp, err, status]
GetPortStatusReset(g, wIndex, ok) ==
    LET s == g.s
    IN  IF "RESET" \in g.temp /\ time_after_eq(jiffies, s.reset_done[wIndex])
        THEN LET s1 == [s EXCEPT !.reset_done[wIndex] = 0,
                                 !.resuming_ports = @ \ {wIndex}]
                 \* force reset to complete
                 e2 == Polled(WrPort(s1, wIndex,
                                     g.temp \ (PORT_RWC_BITS \cup {"RESET"}),
                                     ok))
                 st == g.status \cup {"C_RESET"}
             IN  [s2 \in {e2} |->
                    IF TimedOut(s2, wIndex, "RESET")
                    THEN [s |-> s2, temp |-> g.temp, err |-> TRUE, status |-> st]
                    ELSE \* see what we found out
                         LET e3 == Rd(s2, "portsc", wIndex)
                         IN  [s3 \in {e3} |->
                                LET ec == check_reset_complete(
                                              s3, wIndex, s3.portsc[wIndex])
                                IN  [c \in {ec} |->
                                        [s |-> c.s, temp |-> c.temp,
                                         err |-> FALSE, status |-> st]
                                    ][ec]
                             ][e3]
                 ][e2]
        ELSE g

\* faulty variant: the end of a suspend is noted whatever the port shows
SuspendEnded_Always(temp) == TRUE

\* GetPortStatus, the port was unsuspended without our knowledge: "if (temp &
\* PORT_PE) set_bit(wIndex, &ehci->port_c_suspend);"
SuspendEnded(temp) == "PE" \in temp

\* faulty variant: the change latches are written back as read
CompanionHandover_Acks(temp) == temp \cup {"OWNER"}

\* GetPortStatus: "temp &= ~PORT_RWC_BITS; temp |= PORT_OWNER;"
CompanionHandover(temp) == (temp \ PORT_RWC_BITS) \cup {"OWNER"}

\* GetPortStatus, from the end of the reset handling: ownership of dedicated
\* ports, recovery of a lost suspend, and the status word.
\* g is [s, temp, err, status]
GetPortStatusWord(g, wIndex) ==
    LET sE  == IF (g.temp \cap {"RESUME", "RESET"}) = {}
               THEN [g.s EXCEPT !.reset_done[wIndex] = 0,
                                !.resuming_ports = @ \ {wIndex}]
               ELSE g.s
        \* transfer dedicated ports to the companion hc
        give == "CONNECT" \in g.temp /\ wIndex \in g.s.cfg.companion_ports
        eF  == IF give
               THEN Rd(WrPort(sE, wIndex, CompanionHandover(g.temp), TRUE),
                       "portsc", wIndex)
               ELSE sE
    IN  [sF \in {eF} |->
            LET tF  == IF give THEN sF.portsc[wIndex] ELSE g.temp
                sG  == IF "CONNECT" \in tF /\ sF.cfg.has_hostpc
                       THEN Rd(sF, "hostpc", wIndex) ELSE sF
                \* maybe the port was unsuspended without our knowledge
                lost == /\ (tF \cap {"SUSPEND", "RESUME"}) = {}
                        /\ wIndex \in sF.suspended_ports
                eH  == IF lost
                       THEN [sG EXCEPT !.suspended_ports = @ \ {wIndex},
                                       !.resuming_ports = @ \ {wIndex},
                                       !.reset_done[wIndex] = 0,
                                       !.port_c_suspend =
                                           IF SuspendEnded(tF) THEN @ \cup {wIndex}
                                           ELSE @]
                       ELSE sG
            IN  [sH \in {eH} |->
                    [sH EXCEPT !.buf =
                        [kind |-> "port_status",
                         status |->
                            g.status
                            \cup (IF "CONNECT" \in tF
                                  THEN {"CONNECTION"} \cup ehci_port_speed(sF, wIndex)
                                  ELSE {})
                            \cup Bit("PE" \in tF, "ENABLE")
                            \cup Bit((tF \cap {"SUSPEND", "RESUME"}) # {}, "SUSPEND")
                            \cup Bit("OC" \in tF, "OVERCURRENT")
                            \cup Bit("RESET" \in tF, "RESET")
                            \cup Bit("POWER" \in tF, "POWER")
                            \cup Bit(wIndex \in sH.port_c_suspend, "C_SUSPEND"),
                         desc |-> <<>>]]
                ][eH]
        ][eF]

\* faulty variant: connect change is reported from the connect level
ChangeBits_Level(s, temp) ==
    Bit("CONNECT" \in temp, "C_CONNECTION")
    \cup Bit("PEC" \in temp, "C_ENABLE")
    \cup Bit("OCC" \in temp /\ ~s.cfg.ignore_oc, "C_OVERCURRENT")

\* GetPortStatus: the wPortChange bits read from the port's latches
ChangeBits(s, temp) ==
    Bit("CSC" \in temp, "C_CONNECTION")
    \cup Bit("PEC" \in temp, "C_ENABLE")
    \cup Bit("OCC" \in temp /\ ~s.cfg.ignore_oc, "C_OVERCURRENT")

\* faulty variant: the hardware is trusted to switch the power off
PowerOffOnOverCurrent_Never(s, wIndex, temp) == FALSE

\* GetPortStatus: "Hubs should disable port power on over-current."
PowerOffOnOverCurrent(s, wIndex, temp) ==
    /\ "OCC" \in temp
    /\ ~s.cfg.ignore_oc
    /\ "OC" \in temp
    /\ s.cfg.ppc

\* case GetPortStatus, after the port index check; wIndex is zero-based.
\* ok: the hardware completes the end of resume or reset in handshake time.
GetPortStatus(s0, wIndex, ok) ==
    LET eA == Rd(s0, "portsc", wIndex) IN
    [sA \in {eA} |->
        LET tA  == sA.portsc[wIndex]
            \* wPortChange bits
            stA == ChangeBits(sA, tA)
            eB  == IF PowerOffOnOverCurrent(sA, wIndex, tA)
                   THEN Rd(WrPort(sA, wIndex,
                                  tA \ (PORT_RWC_BITS \cup {"POWER"}), TRUE),
                           "portsc", wIndex)
                   ELSE sA
        IN  [sB \in {eB} |->
                LET eC == GetPortStatusResume(
                              [s |-> sB, temp |-> sB.portsc[wIndex], err |-> FALSE],
                              wIndex, ok)
                IN  [gC \in {eC} |->
                        IF gC.err THEN Stall(gC.s)
                        ELSE LET eD == GetPortStatusReset(
                                          [s |-> gC.s, temp |-> gC.temp,
                                           err |-> FALSE, status |-> stA],
                                          wIndex, ok)
                             IN  [gD \in {eD} |->
                                    IF gD.err THEN Stall(gD.s)
                                    ELSE GetPortStatusWord(gD, wIndex)
                                 ][eD]
                    ][eC]
            ][eB]
    ][eA]


\* ehci_hub_descriptor(): <<bNbrPorts, bPwrOn2PwrGood, bDescLength,
\* wHubCharacteristics>>
ehci_hub_descriptor(s) ==
    LET ports == HCS_N_PORTS(s)
        temp  == 1 + (ports \div 8)
    IN  <<ports, 10, 7 + 2 * temp, 8 + (IF s.cfg.ppc THEN 1 ELSE 2)>>

\* faulty variant: the port indicator feature is accepted as well
HubFeatures_Any ==
    {"C_HUB_LOCAL_POWER", "C_HUB_OVER_CURRENT", "C_HUB_PORT_INDICATOR"}

HubFeatures == {"C_HUB_LOCAL_POWER", "C_HUB_OVER_CURRENT"}

\* faulty variant: the upper limit of the index check is off by one
BadPortIndex_OffByOne(wIndex, ports) == wIndex = 0 \/ wIndex > ports + 1

\* "if (!wIndex || wIndex > ports) goto error;"
BadPortIndex(wIndex, ports) == wIndex = 0 \/ wIndex > ports

\* ehci_hub_control(): wIndex is the request's wIndex as passed (one-based
\* port number in the low byte, test selector in the high byte)
ehci_hub_control(s0, typeReq, wValue, wIndex, ok) ==
    LET ports == HCS_N_PORTS(s0)
        s == spin_lock(s0)
    IN  spin_unlock(
        CASE typeReq \in {"ClearHubFeature", "SetHubFeature"} ->
                \* no hub-wide feature/status flags
                IF wValue \in HubFeatures THEN s ELSE Stall(s)
          [] typeReq = "ClearPortFeature" ->
                IF BadPortIndex(wIndex, ports) THEN Stall(s)
                ELSE ClearPortFeature(s, wValue, wIndex - 1)
          [] typeReq = "GetHubDescriptor" ->
                [s EXCEPT !.buf = [kind |-> "descriptor", status |-> {},
                                   desc |-> ehci_hub_descriptor(s)]]
          [] typeReq = "GetHubStatus" ->
                [s EXCEPT !.buf = [kind |-> "hub_status", status |-> {},
                                   desc |-> <<>>]]
          [] typeReq = "GetPortStatus" ->
                IF BadPortIndex(wIndex, ports) THEN Stall(s)
                ELSE GetPortStatus(s, wIndex - 1, ok)
          [] typeReq = "SetPortFeature" ->
                LET selector == wIndex \div 256
                    index    == wIndex % 256
                IN  IF BadPortIndex(index, ports) THEN Stall(s)
                    ELSE SetPortFeature(s, wValue, index - 1, selector, ok)
          [] OTHER -> Stall(s))


(* --------------------------- hub_status_data -------------------------- *)

\* faulty variant: every port is reported in the first byte
ChangeBit_OneByte(i) == <<0, i + 1>>

\* the byte of the status change packet and the bit in it that stand for
\* port i: "if (i < 7) buf [0] |= 1 << (i + 1); else buf [1] |= 1 << (i - 7);"
ChangeBit(i) == IF i < 7 THEN <<0, i + 1>> ELSE <<1, i - 7>>

\* bit n of byte b
BitOf(b, n) == (b \div (2 ^ n)) % 2

\* bytes[at[1]] |= 1 << at[2]; the bytes of the packet are numbered from 0
OrBit(bytes, at) ==
    [bytes EXCEPT ![at[1] + 1] =
        IF BitOf(@, at[2]) = 1 THEN @ ELSE (@ + 2 ^ at[2]) % 256]

\* the change latches that count: over-current only if it is not ignored
StatusChangeMask(s) ==
    IF s.cfg.ignore_oc THEN {"CSC", "PEC"} ELSE {"CSC", "PEC", "OCC"}

\* port i has something to report: a change latch, a finished suspend, or
\* a reset or resume whose deadline has passed
StatusChanged(s, i) ==
    \/ (s.portsc[i] \cap StatusChangeMask(s)) # {}
    \/ i \in s.port_c_suspend
    \/ s.reset_done[i] # 0 /\ time_after_eq(jiffies, s.reset_done[i])

\* "leverage per-port change bits feature": a port whose change detect bit
\* is clear is passed over
StatusSkipped(s, i, bits) == s.cfg.has_ppcd /\ i \notin bits

\* ehci_hub_status_data(): the loop "for (i = 0; i < ports; i++)", from port
\* i on.  g is [s, bytes, changed]; bits is ppcd as read before the loop.
RECURSIVE StatusPorts(_, _, _)
StatusPorts(g, i, bits) ==
    IF i >= HCS_N_PORTS(g.s) THEN g
    ELSE IF StatusSkipped(g.s, i, bits) THEN StatusPorts(g, i + 1, bits)
    ELSE LET e1 == Rd(g.s, "portsc", i)
         IN  [s1 \in {e1} |->
                LET e2 == IF StatusChanged(s1, i)
                          THEN [s |-> s1,
                                bytes |-> OrBit(g.bytes, ChangeBit(i)),
                                changed |-> TRUE]
                          ELSE [g EXCEPT !.s = s1]
                IN  [g2 \in {e2} |-> StatusPorts(g2, i + 1, bits)][e2]
             ][e1]

\* ehci_hub_status_data(): build the "status change" packet from the port
\* registers; returns the packet's length, or 0 if there is nothing to
\* report and no resume is in progress
ehci_hub_status_data(s0) ==
    \* if !USB_SUSPEND, root hub timers won't get shut down ...
    IF s0.rh_state # "RUNNING"
    THEN [s0 EXCEPT !.ret = "0"]
    ELSE LET ports == HCS_N_PORTS(s0)
             \* get per-port change detect bits
             e1 == IF s0.cfg.has_ppcd THEN Rd(spin_lock(s0), "status", 0)
                   ELSE spin_lock(s0)
         IN  [s1 \in {e1} |->
                LET eg == StatusPorts(
                              [s |-> s1,
                               \* init status to no-changes
                               bytes |-> IF ports > 7 THEN <<0, 0>> ELSE <<0>>,
                               changed |-> FALSE],
                              0, IF s0.cfg.has_ppcd THEN s1.ppcd ELSE {})
                IN  [g \in {eg} |->
                        [spin_unlock(g.s) EXCEPT
                            !.buf = [kind |-> "changes", status |-> {},
                                     desc |-> g.bytes],
                            \* Inform the core about resumes-in-progress by
                            \* returning a non-zero value even if there are
                            \* no status changes.
                            !.ret = IF s0.resuming_ports # {} \/ g.changed
                                    THEN (IF ports > 7 THEN "2" ELSE "1")
                                    ELSE "0"]
                    ][eg]
             ][e1]

(* ----------------------- bus suspend and resume ----------------------- *)

\* faulty variant: busy whenever a port resumes
SuspendBusy_AnyResume(s, do_remote_wakeup) == s.resuming_ports # {}

\* ehci_bus_suspend(): "a resume in progress won't complete once the
\* controller is stopped", checked only when remote wakeup is wanted
SuspendBusy(s, do_remote_wakeup) == do_remote_wakeup /\ s.resuming_ports # {}

\* faulty variant: a port that is already suspended is taken as well
SuspendsPort_AnyEnabled(t1) == "OWNER" \notin t1 /\ "PE" \in t1

\* ehci_bus_suspend(): the ports this call is to suspend
SuspendsPort(t1) == "OWNER" \notin t1 /\ "PE" \in t1 /\ "SUSPEND" \notin t1

\* ehci_bus_suspend(): the loop over the ports, "while (port--)".
\* g is [s, changed]
RECURSIVE SuspendPorts(_, _, _)
SuspendPorts(g, port, do_remote_wakeup) ==
    IF port = 0 THEN g
    ELSE LET p  == port - 1
             e1 == Rd(g.s, "portsc", p)
         IN  [s1 \in {e1} |->
                LET t1    == s1.portsc[p] \ PORT_RWC_BITS
                    owned == "OWNER" \in t1
                    susp  == SuspendsPort(t1)
                    \* keep track of which ports we suspend
                    s2  == IF owned THEN [s1 EXCEPT !.owned_ports = @ \cup {p}]
                           ELSE IF susp
                           THEN [(IF s1.cfg.susp_sof_bug THEN ehci_halt(s1)
                                  ELSE s1)
                                   EXCEPT !.bus_suspended = @ \cup {p}]
                           ELSE s1
                    \* enable remote wakeup on all ports, if told to do so
                    wake == IF ~do_remote_wakeup THEN {}
                            ELSE IF "CONNECT" \in t1 THEN {"WKOC_E", "WKDISC_E"}
                            ELSE {"WKOC_E", "WKCONN_E"}
                    t2  == (t1 \ PORT_WAKE_BITS) \cup Bit(susp, "SUSPEND")
                           \cup wake
                    e3  == IF t1 # t2
                           THEN [s |-> WrPort(s2, p, t2, TRUE), changed |-> TRUE]
                           ELSE [s |-> s2, changed |-> g.changed]
                IN  [g3 \in {e3} |-> SuspendPorts(g3, p, do_remote_wakeup)][e3]
             ][e1]

\* HOSTPC_PHCD of the ports in set ps is written as phcd
WrHostpcPorts(s0, ps, phcd) ==
    CHOOSE r \in
        {[s EXCEPT !.hostpc = [q \in Ports |-> IF q \in ps THEN phcd ELSE @[q]],
                   !.io = @ \cup UNION {{Access("r", "hostpc", q),
                                         Access("w", "hostpc", q)} : q \in ps},
                   !.sync = @ \cup {<<"access", s.lock>> : q \in ps}] :
            s \in {s0}} : TRUE

ehci_bus_suspend(s0, do_remote_wakeup) ==
    \* Once the controller is stopped, port resumes that are already in
    \* progress won't complete.
    IF SuspendBusy(s0, do_remote_wakeup)
    THEN [spin_unlock(spin_lock(s0)) EXCEPT !.ret = "-EBUSY"]
    ELSE LET \* stop schedules, clean any completed work
             s1 == IF s0.rh_state = "RUNNING"
                   THEN ehci_quiesce(spin_lock(s0)) ELSE spin_lock(s0)
             s2 == [Rd(s1, "command", 0) EXCEPT !.command_run = s0.hc_run,
                                                !.bus_suspended = {},
                                                !.owned_ports = {}]
             eg == SuspendPorts([s |-> s2, changed |-> FALSE],
                                HCS_N_PORTS(s0), do_remote_wakeup)
         IN  [g \in {eg} |->
                LET s3 == IF g.changed /\ g.s.cfg.has_hostpc
                          THEN WrHostpcPorts(
                                   spin_lock(msleep(spin_unlock(g.s), 5)),
                                   0 .. (HCS_N_PORTS(s0) - 1), TRUE)
                          ELSE g.s
                    \* Apparently some devices need a >= 1-uframe delay here
                    sd == IF s3.bus_suspended # {} THEN udelay(s3) ELSE s3
                    \* if this bit is set, controller is already haled
                    s4 == IF ~s0.cfg.susp_sof_bug THEN ehci_halt(sd) ELSE sd
                    \* allow remote wakeup
                    mask == IF do_remote_wakeup THEN "INTR_MASK"
                            ELSE "INTR_MASK&~STS_PCD"
                IN  spin_unlock(
                        [Sync(s4, "access") EXCEPT
                               !.rh_state = "SUSPENDED",
                               !.intr_enable = mask,
                               !.io = @ \cup {Access("w", "intr_enable", 0),
                                              Access("r", "intr_enable", 0)}])
             ][eg]


\* ehci_port_change(): "Does the root hub have a port wakeup pending?"  The
\* status register and the port registers are read.
ehci_port_change(s) ==
    [Sync(s, "access") EXCEPT
        !.io = @ \cup {Access("r", "status", 0)}
                 \cup {Access("r", "portsc", q) :
                         q \in 0 .. (HCS_N_PORTS(s) - 1)}]

\* ehci_adjust_port_wakeup_flags(): the loop over the ports, "while (port--)"
RECURSIVE AdjustPorts(_, _, _)
AdjustPorts(s, port, suspending) ==
    IF port = 0 THEN s
    ELSE LET p  == port - 1
             e1 == Rd(s, "portsc", p)
         IN  [s1 \in {e1} |->
                LET t1 == s1.portsc[p] \ PORT_RWC_BITS
                    \* If we are suspending the controller, clear the flags.
                    \* If we are resuming the controller, set the wakeup flags.
                    t2 == (t1 \ PORT_WAKE_BITS)
                          \cup (IF suspending THEN {}
                                ELSE IF "CONNECT" \in t1
                                THEN {"WKOC_E", "WKDISC_E"}
                                ELSE {"WKOC_E", "WKCONN_E"})
                IN  AdjustPorts(WrPort(s1, p, t2, TRUE), p, suspending)
             ][e1]

\* ehci_adjust_port_wakeup_flags(): when remote wakeup is enabled for the
\* root hub but disabled for the controller, the port wakeup flags are
\* cleared (suspending) or set again (resuming)
ehci_adjust_port_wakeup_flags(s0, suspending, do_wakeup, do_remote_wakeup) ==
    IF ~do_remote_wakeup \/ do_wakeup THEN s0
    ELSE LET all == 0 .. (HCS_N_PORTS(s0) - 1)
             \* clear phy low-power mode before changing wakeup flags
             e1 == IF s0.cfg.has_hostpc
                   THEN spin_lock(msleep(spin_unlock(
                            WrHostpcPorts(spin_lock(s0), all, FALSE)), 5))
                   ELSE spin_lock(s0)
         IN  [s1 \in {e1} |->
                LET e2 == AdjustPorts(s1, HCS_N_PORTS(s0), suspending)
                IN  [s2 \in {e2} |->
                        LET \* enter phy low-power mode again
                            s3 == IF s0.cfg.has_hostpc
                                  THEN WrHostpcPorts(s2, all, TRUE) ELSE s2
                        IN  spin_unlock(IF ~suspending
                                        THEN ehci_port_change(s3) ELSE s3)
                    ][e2]
             ][e1]

\* a hub_control call made from inside the driver: its return value is
\* dropped and its buffer is a local
InnerHubControl(s, typeReq, wValue, wIndex, ok) ==
    [ehci_hub_control(s, typeReq, wValue, wIndex, ok)
        EXCEPT !.ret = s.ret, !.buf = s.buf]

\* ehci_handover_companion_ports(): first loop
RECURSIVE HandoverStart(_, _, _)
HandoverStart(s, port, ok) ==
    IF port = 0 THEN s
    ELSE LET p == port - 1
         IN  IF p \notin s.owned_ports THEN HandoverStart(s, p, ok)
             ELSE LET e1 == Rd(s, "portsc", p)
                  IN  [s1 \in {e1} |->
                        LET status == s1.portsc[p] \ PORT_RWC_BITS
                            e2 == \* Port already owned by companion?
                                  IF "OWNER" \in status
                                  THEN [s1 EXCEPT !.owned_ports = @ \ {p}]
                                  ELSE IF p \in s1.cfg.companion_ports
                                  THEN WrPort(s1, p, status \ {"PE"}, TRUE)
                                  ELSE InnerHubControl(s1, "SetPortFeature",
                                                       "RESET", p + 1, ok)
                        IN  [s2 \in {e2} |-> HandoverStart(s2, p, ok)][e2]
                      ][e1]

\* faulty variant: a port that was not handed over is left as it is
HandoverFailed_Kept(status) == status

\* ehci_handover_companion_ports(), failed handover: "ehci_writel(ehci,
\* status & ~PORT_PE, reg);"
HandoverFailed(status) == status \ {"PE"}

\* ehci_handover_companion_ports(): second loop, after the resets
RECURSIVE HandoverFinish(_, _, _)
HandoverFinish(s, port, ok) ==
    IF port = 0 THEN s
    ELSE LET p == port - 1
         IN  IF p \notin s.owned_ports THEN HandoverFinish(s, p, ok)
             ELSE LET e1 == Rd(InnerHubControl(s, "GetPortStatus", "", p + 1, ok),
                               "portsc", p)
                  IN  [s1 \in {e1} |->
                        LET status == s1.portsc[p] \ PORT_RWC_BITS
                            e2 == \* The companion should now own the port,
                                  \* but if something went wrong the port must
                                  \* not remain enabled.
                                  IF "OWNER" \in status
                                  THEN WrPort(s1, p, status \cup {"CSC"}, TRUE)
                                  ELSE WrPort(s1, p, HandoverFailed(status), TRUE)
                        IN  [s2 \in {e2} |-> HandoverFinish(s2, p, ok)][e2]
                      ][e1]

ehci_handover_companion_ports(s, ok) ==
    IF s.owned_ports = {} THEN s
    ELSE LET \* Give the connections some time to appear
             e0 == msleep(s, 20)
         IN  [s0 \in {e0} |->
                LET e1 == HandoverStart(s0, HCS_N_PORTS(s), ok)
                IN  [s1 \in {e1} |->
                        IF s1.owned_ports = {} THEN s1
                        ELSE \* Wait for resets to complete
                             LET e2 == msleep(s1, 90)
                             IN  [s2 \in {e2} |->
                                    [HandoverFinish(s2, HCS_N_PORTS(s), ok)
                                        EXCEPT !.owned_ports = {}]
                                 ][e2]
                    ][e1]
             ][e0]

\* faulty variant: every suspended port is resumed
ResumeNeeded_AnySuspended(s, p, temp) == "SUSPEND" \in temp

\* ehci_bus_resume(): a port is resumed if bus_suspend() suspended it and it
\* still shows PORT_SUSPEND
ResumeNeeded(s, p, temp) == p \in s.bus_suspended /\ "SUSPEND" \in temp

\* ehci_bus_resume(): "manually resume the ports we suspended during
\* bus_suspend()".  g is [s, resume_needed]
RECURSIVE ResumePorts(_, _)
ResumePorts(g, i) ==
    IF i = 0 THEN g
    ELSE LET p    == i - 1
             temp == g.s.portsc[p] \ (PORT_RWC_BITS \cup PORT_WAKE_BITS)
             need == ResumeNeeded(g.s, p, temp)
             e1   == [s |-> WrPort(Rd(g.s, "portsc", p), p,
                                   temp \cup Bit(need, "RESUME"), TRUE),
                      resume_needed |-> g.resume_needed \cup Bit(need, p)]
         IN  [g1 \in {e1} |-> ResumePorts(g1, p)][e1]

\* ehci_bus_resume(): the loop that clears PORT_RESUME after the 20 msec
RECURSIVE ClearResumePorts(_, _, _, _)
ClearResumePorts(s, i, resume_needed, ok) ==
    IF i = 0 THEN s
    ELSE LET p    == i - 1
             temp == s.portsc[p]
             e1   == IF p \in resume_needed
                     THEN WrPort(Rd(s, "portsc", p), p,
                                 temp \ (PORT_RWC_BITS \cup {"RESUME"}), ok)
                     ELSE Rd(s, "portsc", p)
         IN  [s1 \in {e1} |-> ClearResumePorts(s1, p, resume_needed, ok)][e1]

\* on the controller with the resume erratum PORT_RESUME "gets cleared
\* automatically": port 0 when the hardware ends its resume by itself
PortAutoResume(old, ok) ==
    IF ok /\ "RESUME" \in old THEN old \ {"RESUME", "SUSPEND"} ELSE old

\* faulty variant: the controller is taken to be accessible
HwAccessible_Always(s) == TRUE

\* HCD_HW_ACCESSIBLE(hcd)
HwAccessible(s) == s.hw_accessible

ehci_bus_resume(s0, ok) ==
    IF ~HwAccessible(s0)
    THEN [spin_unlock(spin_lock(s0)) EXCEPT !.ret = "-ESHUTDOWN"]
    ELSE LET \* CMD_RUN will be set after, PORT_RESUME gets cleared
             run == s0.command_run /\ ~s0.cfg.resume_sof_bug
             \* delay the IRQs until we're ready, re-init operational
             \* registers, restore CMD_RUN, framelist size, and irq threshold
             s2 == [Sync(spin_lock(s0), "access") EXCEPT
                              !.intr_enable = "none",
                              !.command_run = run, !.hc_run = run,
                              !.rh_state = "RUNNING",
                              !.io = @ \cup {Access("r", "intr_enable", 0),
                                             Access("w", "intr_enable", 0),
                                             Access("w", "segment", 0),
                                             Access("w", "frame_list", 0),
                                             Access("w", "async_next", 0),
                                             Access("w", "command", 0)}]
             \* clear phy low-power mode before resume
             e4 == IF s0.bus_suspended # {} /\ s0.cfg.has_hostpc
                   THEN spin_lock(msleep(spin_unlock(
                            WrHostpcPorts(spin_lock(msleep(spin_unlock(s2), 8)),
                                          s0.bus_suspended, FALSE)), 5))
                   ELSE spin_lock(msleep(spin_unlock(s2), 8))
         IN  [s4 \in {e4} |->
                LET eg == ResumePorts([s |-> s4, resume_needed |-> {}],
                                      HCS_N_PORTS(s0))
                IN  [g \in {eg} |->
                      LET e5 ==
                            IF s0.cfg.resume_sof_bug /\ g.resume_needed # {}
                            THEN \* root hub has only one port.
                                 WrCommandRun(
                                     [Polled(Rd(g.s, "portsc", 0)) EXCEPT
                                         !.portsc[0] = PortAutoResume(@, ok)],
                                     TRUE)
                            ELSE IF g.resume_needed # {}
                            \* msleep for 20ms only if code is trying to
                            \* resume port
                            THEN ClearResumePorts(
                                     spin_lock(msleep(spin_unlock(g.s), 20)),
                                                  HCS_N_PORTS(s0),
                                                  g.resume_needed, ok)
                            ELSE ClearResumePorts(g.s, HCS_N_PORTS(s0), {}, ok)
                      IN  [s5 \in {e5} |->
                            LET \* Now we can safely re-enable irqs
                                e6 == spin_unlock(
                                      [Sync(s5, "access") EXCEPT
                                        !.intr_enable = "INTR_MASK",
                                        !.io = @ \cup
                                            {Access("r", "command", 0),
                                             Access("w", "intr_enable", 0)}])
                            IN  [s6 \in {e6} |->
                                    ehci_handover_companion_ports(s6, ok)][e6]
                          ][e5]
                    ][eg]
             ][e4]


(* --------------------- interrupt and environment ---------------------- *)

\* ehci_irq(), port change detect: a suspended, enabled port that shows
\* resume signalling (or has left suspend) starts a 25 msec resume
RemoteWakeupPorts(s) ==
    {i \in 0 .. (HCS_N_PORTS(s) - 1) :
        /\ "OWNER" \notin s.portsc[i]
        /\ i \in s.suspended_ports
        /\ ("RESUME" \in s.portsc[i] \/ "SUSPEND" \notin s.portsc[i])
        /\ "PE" \in s.portsc[i]
        /\ s.reset_done[i] = 0}

ehci_irq(s) ==
    LET ps == RemoteWakeupPorts(s)
    IN  [s EXCEPT !.reset_done = [q \in Ports |->
                      IF q \in ps THEN jiffies + msecs_to_jiffies(25) ELSE @[q]],
                  !.resuming_ports = @ \cup ps,
                  !.io = {Access("r", "status", 0), Access("w", "status", 0)}
                         \cup {Access("r", "portsc", q) :
                                 q \in 0 .. (HCS_N_PORTS(s) - 1)}]

(* ------------------- the state notifier (state_notifier.c) ------------ *)

\* "static bool state_suspended", "static bool suspend_in_progress",
\* "suspend_work" (idle, waiting for its delay, or queued), "resume_work"
\* (idle or queued), the single-threaded workqueue "susp_wq" in queue
\* order, where its worker thread is, where the caller of state_suspend()
\* or state_resume() is, and as history the last call made and the last
\* notification the clients got.
NotifierIdle ==
    [state_suspended |-> FALSE, suspend_in_progress |-> FALSE,
     suspend_work |-> "idle", resume_work |-> "idle", susp_wq |-> <<>>,
     worker |-> "idle", caller |-> "idle",
     request |-> "none", notified |-> "none"]

\* state_notifier_call_chain(val, NULL): the clients get val
state_notifier_call_chain(n, val) == [n EXCEPT !.notified = val]

\* the workqueue without the work w
Dequeued(wq, w) == SelectSeq(wq, LAMBDA x : x # w)

\* queue_work_on(), queue_delayed_work_on(): a work that is pending (waiting
\* for its delay or queued) is not queued again; one that runs is not
\* pending
WorkPending(state) == state # "idle"

\* _suspend_work(), one statement at a time
_suspend_work(n) ==
    CASE n.worker = "suspend_notify" ->
            [state_notifier_call_chain(n, "SUSPEND")
                EXCEPT !.worker = "suspend_set"]
      [] n.worker = "suspend_set" ->
            [n EXCEPT !.state_suspended = TRUE, !.worker = "suspend_done"]
      [] n.worker = "suspend_done" ->
            [n EXCEPT !.suspend_in_progress = FALSE, !.worker = "idle"]

\* _resume_work(): the notification, then msleep_interruptible(50) and
\* "state_suspended = false"
_resume_work(n) ==
    CASE n.worker = "resume_notify" ->
            [state_notifier_call_chain(n, "ACTIVE")
                EXCEPT !.worker = "resume_sleep"]
      [] n.worker = "resume_sleep" ->
            [n EXCEPT !.state_suspended = FALSE, !.worker = "idle"]

\* state_suspend(), one access to the shared state at a time
state_suspend(n) ==
    CASE n.caller = "idle" ->
            [n EXCEPT !.request = "state_suspend",
                      !.caller = IF n.state_suspended THEN "idle"
                                 ELSE "suspend_check"]
      [] n.caller = "suspend_check" ->
            [n EXCEPT !.caller = IF n.suspend_in_progress THEN "idle"
                                 ELSE "suspend_mark"]
      [] n.caller = "suspend_mark" ->
            [n EXCEPT !.suspend_in_progress = TRUE, !.caller = "suspend_queue"]
      [] n.caller = "suspend_queue" ->
            [n EXCEPT !.suspend_work = IF WorkPending(@) THEN @ ELSE "timer",
                      !.caller = "idle"]

\* state_resume(), one access to the shared state at a time;
\* cancel_delayed_work_sync() returns when the work is neither pending nor
\* running
state_resume(n) ==
    CASE n.caller = "idle" ->
            [n EXCEPT !.request = "state_resume", !.caller = "resume_cancel"]
      [] n.caller = "resume_cancel" ->
            [n EXCEPT !.suspend_work = "idle",
                      !.susp_wq = Dequeued(@, "suspend"),
                      !.caller = "resume_clear"]
      [] n.caller = "resume_clear" ->
            [n EXCEPT !.suspend_in_progress = FALSE, !.caller = "resume_queue"]
      [] n.caller = "resume_queue" ->
            IF n.state_suspended /\ ~WorkPending(n.resume_work)
            THEN [n EXCEPT !.resume_work = "queued",
                           !.susp_wq = Append(@, "resume"),
                           !.caller = "idle"]
            ELSE [n EXCEPT !.caller = "idle"]

\* the notifier is as in the record r; the host controller is left alone
Notifies(r) ==
    /\ notifier' = r
    /\ UNCHANGED hubVars

\* a caller enters state_suspend()
SuspendCalled ==
    /\ notifier.caller = "idle"
    /\ \E r \in {state_suspend(notifier)} : Notifies(r)

\* state_suspend() goes on by one step
SuspendGoesOn ==
    /\ notifier.caller \in {"suspend_check", "suspend_mark", "suspend_queue"}
    /\ \E r \in {state_suspend(notifier)} : Notifies(r)

\* a caller enters state_resume()
ResumeCalled ==
    /\ notifier.caller = "idle"
    /\ \E r \in {state_resume(notifier)} : Notifies(r)

\* state_resume() goes on by one step; cancel_delayed_work_sync() waits
\* while _suspend_work() runs
ResumeGoesOn ==
    /\ notifier.caller \in {"resume_cancel", "resume_clear", "resume_queue"}
    /\ notifier.caller = "resume_cancel"
          => notifier.worker \notin {"suspend_notify", "suspend_set",
                                     "suspend_done"}
    /\ \E r \in {state_resume(notifier)} : Notifies(r)

\* the delay of suspend_work is over: the work is queued
DelayOver ==
    /\ notifier.suspend_work = "timer"
    /\ \E r \in {[notifier EXCEPT !.suspend_work = "queued",
                                  !.susp_wq = Append(@, "suspend")]} :
            Notifies(r)

\* the worker thread of susp_wq takes the next work: it is pending no more
WorkTaken ==
    /\ notifier.worker = "idle"
    /\ notifier.susp_wq # <<>>
    /\ \E r \in {IF Head(notifier.susp_wq) = "suspend"
                 THEN [notifier EXCEPT !.susp_wq = Tail(@),
                                       !.suspend_work = "idle",
                                       !.worker = "suspend_notify"]
                 ELSE [notifier EXCEPT !.susp_wq = Tail(@),
                                       !.resume_work = "idle",
                                       !.worker = "resume_notify"]} :
            Notifies(r)

\* _suspend_work() goes on by one step
SuspendWorkRuns ==
    /\ notifier.worker \in {"suspend_notify", "suspend_set", "suspend_done"}
    /\ \E r \in {_suspend_work(notifier)} : Notifies(r)

\* _resume_work() goes on by one step
ResumeWorkRuns ==
    /\ notifier.worker \in {"resume_notify", "resume_sleep"}
    /\ \E r \in {_resume_work(notifier)} : Notifies(r)

(* ---------------------------- configurations -------------------------- *)

\* a controller with n ports, the capabilities and errata in flags, and the
\* ports in companion statically routed to the companion controller
Controller(n, flags, companion) ==
    [n_ports |-> n,
     ppc |-> "ppc" \in flags,
     tdi |-> "tdi" \in flags,
     has_hostpc |-> "has_hostpc" \in flags,
     has_ppcd |-> "has_ppcd" \in flags,
     has_lpm |-> "has_lpm" \in flags,
     no_selective_suspend |-> "no_selective_suspend" \in flags,
     susp_sof_bug |-> "susp_sof_bug" \in flags,
     resume_sof_bug |-> "resume_sof_bug" \in flags,
     reset_sof_bug |-> "reset_sof_bug" \in flags,
     enable_ulpi_control |-> "enable_ulpi_control" \in flags,
     ignore_oc |-> "ignore_oc" \in flags,
     companion_ports |-> companion]

(* ------------------------------ requests ------------------------------ *)

PortFeatures ==
    {"ENABLE", "SUSPEND", "RESET", "POWER", "C_CONNECTION", "C_ENABLE",
     "C_SUSPEND", "C_OVER_CURRENT", "C_RESET", "TEST", "INDICATOR"}

\* a call and its arguments; ok is the hardware's answer to a handshake
Op(name, wValue, wIndex, ok) ==
    [name |-> name, wValue |-> wValue, wIndex |-> wIndex, ok |-> ok]

\* no call has returned since the last event
NoOp == Op("none", "", 0, TRUE)

\* a call that has released the lock and sleeps: the call, the port status
\* it read before, the register accesses it has made and what it has noted
\* about the lock
Pending(o, temp, accesses, events) ==
    [o |-> o, temp |-> temp, io |-> accesses, sync |-> events]

\* no call is sleeping
NoPending == Pending(NoOp, {}, {}, {})

\* wIndex values: port numbers 0 (invalid) .. n + 1 (invalid)
PortNumbers(n) == 0 .. (n + 1)

\* every request the hub layer may send to a controller with n ports
Requests(n) ==
    {Op(t, f, 0, TRUE) :
        t \in {"ClearHubFeature", "SetHubFeature"},
        f \in HubFeatures \cup {"C_HUB_PORT_INDICATOR"}}
    \cup {Op(t, "", 0, TRUE) :
            t \in {"GetHubDescriptor", "GetHubStatus", "GetBusState"}}
    \cup {Op("GetPortStatus", "", i, ok) : i \in PortNumbers(n), ok \in BOOLEAN}
    \cup {Op("ClearPortFeature", f, i, TRUE) :
            f \in PortFeatures, i \in PortNumbers(n)}
    \cup {Op("SetPortFeature", f, i, TRUE) :
            f \in PortFeatures \ {"TEST"}, i \in PortNumbers(n)}
    \cup {Op("SetPortFeature", "TEST", 256 * sel + i, TRUE) :
            sel \in {0, 5, 6}, i \in PortNumbers(n)}

\* the requests for the ports 1 .. n, test mode left out
PortRequestsTo(n) ==
    {Op("GetPortStatus", "", i, ok) : i \in 1 .. n, ok \in BOOLEAN}
    \cup {Op(t, f, i, TRUE) :
            t \in {"ClearPortFeature", "SetPortFeature"},
            f \in PortFeatures \ {"TEST"}, i \in 1 .. n}

(* ------------------------------ actions ------------------------------- *)

\* the state after ehci_run() on controller c: ports powered, whatever is
\* plugged in (a device kind of ds) shows as a fresh connection
InitOf(cs, ds) ==
    /\ cfg \in cs
    /\ dev \in [Ports -> ds \cup {"none"}]
    /\ \A q \in Ports : q >= cfg.n_ports => dev[q] = "none"
    /\ portsc = [q \in Ports |->
                    IF q >= cfg.n_ports THEN {}
                    ELSE IF dev[q] = "none" THEN {"POWER"}
                    ELSE {"POWER", "CONNECT", "CSC"} \cup LineStatus(dev[q])]
    /\ hostpc = [q \in Ports |-> FALSE]
    /\ hc_run = TRUE
    /\ ppcd = {q \in Ports : cfg.has_ppcd /\ "CSC" \in portsc[q]}
    /\ intr_enable = "INTR_MASK"
    /\ hw_accessible = TRUE
    /\ command_run = TRUE
    /\ rh_state = "RUNNING"
    /\ bus_suspended = {}
    /\ owned_ports = {}
    /\ suspended_ports = {}
    /\ resuming_ports = {}
    /\ port_c_suspend = {}
    /\ reset_done = [q \in Ports |-> 0]
    /\ op = NoOp
    /\ ret = "0"
    /\ buf = NoBuf
    /\ io = {}
    /\ suspend_shown = {}
    /\ reset_due = [q \in Ports |-> 0]
    /\ pending = NoPending
    /\ lock = FALSE
    /\ sync = {}
    /\ notifier = NotifierIdle

\* the hub layer sends one of the requests in rs
HubControl(rs) ==
    \E o \in rs :
        \E r \in {ehci_hub_control(St, o.name, o.wValue, o.wIndex, o.ok)} :
            Becomes(r, o)

\* the PM core suspends the root hub, with or without remote wakeup
BusSuspend(wakeups) ==
    \E do_remote_wakeup \in wakeups :
        \E r \in {ehci_bus_suspend(St, do_remote_wakeup)} :
            Becomes(r, Op("bus_suspend",
                          IF do_remote_wakeup THEN "wakeup" ELSE "", 0, TRUE))

BusResume(oks) ==
    \E ok \in oks :
        \E r \in {ehci_bus_resume(St, ok)} :
            Becomes(r, Op("bus_resume", "", 0, ok))

\* the hub layer polls for status changes
HubStatusData ==
    \E r \in {ehci_hub_status_data(St)} :
        Becomes(r, Op("hub_status_data", "", 0, TRUE))

\* The request o, made now, gets to a sleep with the lock released:
\* SetPortFeature(SUSPEND) and ClearPortFeature(SUSPEND) on a controller
\* with HOSTPC registers, when they get past their checks.
ReachesSleep(o) ==
    /\ cfg.has_hostpc
    /\ ~cfg.no_selective_suspend
    /\ o.wValue = "SUSPEND"
    /\ ~BadPortIndex(o.wIndex, cfg.n_ports)
    /\ \/ /\ o.name = "SetPortFeature"
          /\ ~PortOwned(portsc[o.wIndex - 1])
          /\ ~SuspendRefused(portsc[o.wIndex - 1] \ PORT_RWC_BITS)
       \/ /\ o.name = "ClearPortFeature"
          /\ "RESET" \notin portsc[o.wIndex - 1]
          /\ PortSuspended(portsc[o.wIndex - 1])
          /\ "PE" \in portsc[o.wIndex - 1]

\* such a call from its start to the sleep
BeforeSleep(s, o) ==
    IF o.name = "SetPortFeature"
    THEN SuspendWritten(Rd(spin_lock(s), "portsc", o.wIndex - 1),
                        o.wIndex - 1, s.portsc[o.wIndex - 1] \ PORT_RWC_BITS)
    ELSE ResumePrepared(Rd(spin_lock(s), "portsc", o.wIndex - 1), o.wIndex - 1)

\* and from the sleep to its return
AfterSleep(s, p) ==
    spin_unlock(Rd(IF p.o.name = "SetPortFeature"
                   THEN SuspendRecorded(s, p.o.wIndex - 1)
                   ELSE ResumeSignalled(s, p.o.wIndex - 1, p.temp),
                   "command", 0))

\* a request of rs that does not sleep runs from start to return, also
\* while another caller's request sleeps
HubControlAtOnce(rs) == HubControl({o \in rs : ~ReachesSleep(o)})

\* a request of rs gets to its sleep and releases the lock (one call sleeps
\* at a time)
HubControlSleeps(rs) ==
    /\ pending = NoPending
    /\ \E o \in rs :
        /\ ReachesSleep(o)
        /\ \E r \in {BeforeSleep(St, o)} :
            /\ Lands([r EXCEPT !.io = {}, !.sync = {}], NoOp)
            /\ pending' = Pending(o, portsc[o.wIndex - 1], r.io, r.sync)

\* the sleeping call takes the lock again and runs to its return
HubControlWakes ==
    /\ pending # NoPending
    /\ \E r \in {AfterSleep([St EXCEPT !.io = pending.io,
                                       !.sync = pending.sync], pending)} :
        /\ Lands(r, pending.o)
        /\ pending' = NoPending

\* the controller below the suspended root hub is suspended or resumed, and
\* the PM core has the port wakeup flags adjusted
AdjustPortWakeupFlags ==
    /\ rh_state = "SUSPENDED"
    /\ \E suspending \in BOOLEAN, do_wakeup \in BOOLEAN,
          do_remote_wakeup \in BOOLEAN :
        \E r \in {ehci_adjust_port_wakeup_flags(St, suspending, do_wakeup,
                                                do_remote_wakeup)} :
            Becomes(r, Op("adjust_port_wakeup_flags",
                          IF suspending THEN "suspending" ELSE "resuming",
                          (IF do_remote_wakeup THEN 2 ELSE 0)
                            + (IF do_wakeup THEN 1 ELSE 0),
                          TRUE))

\* the caller has taken the result of the last call
Return ==
    /\ op # NoOp
    /\ Becomes(St, NoOp)

Irq ==
    /\ RemoteWakeupPorts(St) # {}
    /\ intr_enable = "INTR_MASK"
    /\ \E r \in {[ehci_irq(St) EXCEPT !.io = {}]} : Becomes(r, NoOp)

\* the controller below the root hub is put to sleep or woken (PCI level)
HwAccess ==
    /\ rh_state = "SUSPENDED"
    /\ \E r \in {[St EXCEPT !.hw_accessible = ~@]} : Becomes(r, NoOp)

\* the hardware changes the register of port p to new
HwPort(p, new) ==
    [St EXCEPT !.portsc[p] = new,
               !.ppcd = PortChangeDetect(St, p, portsc[p], new,
                                         PORT_RWC_BITS \cup {"RESUME"})]

\* a device of a kind in ds is plugged in, or the device is pulled out
HwAttach(ds) ==
    \E p \in 0 .. (cfg.n_ports - 1), d \in ds \cup {"none"} :
        /\ (dev[p] = "none") # (d = "none")
        /\ \E r \in {[HwPort(p, PortAttach(portsc[p], d)) EXCEPT !.dev[p] = d]} :
                Becomes(r, NoOp)

\* an over-current condition appears or goes away
HwOverCurrent ==
    \E p \in 0 .. (cfg.n_ports - 1) :
        /\ "POWER" \in portsc[p] \/ "OC" \in portsc[p]
        /\ \E r \in {HwPort(p, PortOverCurrent(portsc[p]))} :
                Becomes(r, NoOp)

\* the hardware disables an enabled port on a port error
HwPortError ==
    \E p \in 0 .. (cfg.n_ports - 1) :
        /\ "PE" \in portsc[p]
        /\ \E r \in {HwPort(p, PortError(portsc[p], dev[p]))} :
                Becomes(r, NoOp)

\* the controller loses power while the root hub is suspended and is set up
\* again before the root hub is resumed: the ports are powered and owned by
\* this controller, and whatever is plugged in shows as a fresh connection
HwPowerLoss ==
    /\ rh_state = "SUSPENDED"
    /\ \E r \in {[St EXCEPT
                    !.portsc = [q \in Ports |->
                        IF q >= cfg.n_ports THEN {}
                        ELSE IF dev[q] = "none" THEN {"POWER"}
                        ELSE {"POWER", "CONNECT", "CSC"} \cup LineStatus(dev[q])],
                    !.hostpc = [q \in Ports |-> FALSE],
                    !.hc_run = FALSE,
                    !.intr_enable = "none"]} :
            Becomes(r, NoOp)

\* the hardware disables a suspended port on a fault
HwPortFault ==
    \E p \in 0 .. (cfg.n_ports - 1) :
        /\ {"PE", "SUSPEND"} \subseteq portsc[p]
        /\ \E r \in {HwPort(p, PortFault(portsc[p], dev[p]))} :
                Becomes(r, NoOp)

\* a suspended device signals remote wakeup
HwRemoteWakeup ==
    \E p \in 0 .. (cfg.n_ports - 1) :
        /\ {"PE", "SUSPEND"} \subseteq portsc[p]
        /\ "RESUME" \notin portsc[p]
        /\ \E r \in {HwPort(p, portsc[p] \cup {"RESUME"})} :
                Becomes(r, NoOp)

\* a jiffy passes while some deadline is still ahead
Tick ==
    /\ \E q \in Ports : reset_done[q] > jiffies \/ reset_due[q] > jiffies
    /\ \E r \in {Elapse(St, 1)} : Becomes(r, NoOp)

(* --------------------------- specifications --------------------------- *)

\* Every hub request, with valid and invalid port numbers, to a controller
\* with one port and per-port power switching.  A call's result is held
\* until the caller takes it (Return); nothing else happens meanwhile.
HubControllers == {Controller(1, {"ppc"}, {})}

InitHub == InitOf(HubControllers, DeviceKinds)

NextHub ==
    \/ op = NoOp /\ HubControl(Requests(cfg.n_ports))
    \/ op = NoOp /\ HwAttach(DeviceKinds)
    \/ op = NoOp /\ HwRemoteWakeup
    \/ op = NoOp /\ Irq
    \/ op = NoOp /\ Tick
    \/ Return

SpecHub == InitHub /\ [][NextHub]_vars

\* The port requests outside test mode, on the ports of the same
\* controller, with every port event: over-current and port errors too.
InitPort == InitOf(HubControllers, DeviceKinds)

NextPort ==
    \/ op = NoOp /\ HubControl(PortRequestsTo(cfg.n_ports))
    \/ op = NoOp /\ HwAttach(DeviceKinds)
    \/ op = NoOp /\ HwOverCurrent
    \/ op = NoOp /\ HwPortError
    \/ op = NoOp /\ HwRemoteWakeup
    \/ op = NoOp /\ Irq
    \/ op = NoOp /\ Tick
    \/ Return

SpecPort == InitPort /\ [][NextPort]_vars

\* The bus calls on a controller with one port.  The hub layer resets,
\* suspends and resumes the port and reads its status; the PM core suspends
\* and resumes the root hub, and the controller below it; devices come and
\* go, and a suspended device signals remote wakeup.
BusControllers == {Controller(1, {"ppc"}, {})}

BusRequestsTo(n) ==
    {Op("GetPortStatus", "", i, ok) : i \in 1 .. n, ok \in BOOLEAN}
    \cup {Op("SetPortFeature", f, i, TRUE) :
            f \in {"RESET", "SUSPEND"}, i \in 1 .. n}
    \cup {Op("ClearPortFeature", "SUSPEND", i, TRUE) : i \in 1 .. n}

InitBus == InitOf(BusControllers, {"hs", "fs"})

NextBus == \/ op = NoOp /\ HubControl(BusRequestsTo(cfg.n_ports))
           \/ op = NoOp /\ BusSuspend(BOOLEAN)
           \/ op = NoOp /\ BusResume(BOOLEAN)
           \/ op = NoOp /\ HwAccess
           \/ op = NoOp /\ HwAttach({"hs", "fs"})
           \/ op = NoOp /\ HwRemoteWakeup
           \/ op = NoOp /\ Irq
           \/ op = NoOp /\ Tick
           \/ Return

SpecBus == InitBus /\ [][NextBus]_vars

\* Root hub suspend and resume on a controller with two ports, each with a
\* high-speed or full-speed device or empty.  The hub layer resets and
\* suspends ports and reads their status; the PM core suspends and resumes
\* the root hub.
RoundTripControllers == {Controller(2, {"ppc"}, {})}

RoundTripRequestsTo(n) ==
    {Op("GetPortStatus", "", i, TRUE) : i \in 1 .. n}
    \cup {Op("SetPortFeature", f, i, TRUE) :
            f \in {"RESET", "SUSPEND"}, i \in 1 .. n}

InitRoundTrip == InitOf(RoundTripControllers, {"hs", "fs"})

NextRoundTrip ==
    \/ op = NoOp /\ HubControl(RoundTripRequestsTo(cfg.n_ports))
    \/ op = NoOp /\ BusSuspend(BOOLEAN)
    \/ op = NoOp /\ BusResume(BOOLEAN)
    \/ op = NoOp /\ Tick
    \/ Return

SpecRoundTrip == InitRoundTrip /\ [][NextRoundTrip]_vars

\* Port suspend, resume and reset on one-port controllers: a plain one, one
\* on which selective suspend is disabled, and one with the suspend erratum
\* (the port is only suspended as part of the bus suspend).
QuirkControllers ==
    {Controller(1, {"ppc"}, {}),
     Controller(1, {"ppc", "no_selective_suspend"}, {}),
     Controller(1, {"ppc", "susp_sof_bug"}, {})}

QuirkRequestsTo(n) ==
    {Op("GetPortStatus", "", i, TRUE) : i \in 1 .. n}
    \cup {Op("SetPortFeature", f, i, TRUE) :
            f \in {"RESET", "SUSPEND"}, i \in 1 .. n}
    \cup {Op("ClearPortFeature", f, i, TRUE) :
            f \in {"SUSPEND", "C_SUSPEND"}, i \in 1 .. n}

InitQuirk == InitOf(QuirkControllers, {"hs", "fs"})

NextQuirk == \/ op = NoOp /\ HubControl(QuirkRequestsTo(cfg.n_ports))
             \/ op = NoOp /\ HwAttach({"hs", "fs"})
             \/ op = NoOp /\ HwRemoteWakeup
             \/ op = NoOp /\ Irq
             \/ op = NoOp /\ Tick
             \/ Return

SpecQuirk == InitQuirk /\ [][NextQuirk]_vars

\* Every entry point of the root hub on a controller with one port: port
\* requests, the status change poll, bus suspend and resume, with devices
\* coming and going and remote wakeup.
InitCalls == InitOf(BusControllers, {"hs", "fs"})

NextCalls == \/ op = NoOp /\ HubControl(BusRequestsTo(cfg.n_ports))
             \/ op = NoOp /\ HubStatusData
             \/ op = NoOp /\ BusSuspend(BOOLEAN)
             \/ op = NoOp /\ BusResume(BOOLEAN)
             \/ op = NoOp /\ HwAccess
             \/ op = NoOp /\ HwAttach({"hs", "fs"})
             \/ op = NoOp /\ HwRemoteWakeup
             \/ op = NoOp /\ Irq
             \/ op = NoOp /\ Tick
             \/ Return

SpecCalls == InitCalls /\ [][NextCalls]_vars

\* Two callers on a controller with HOSTPC registers and one port.  A port
\* suspend or resume releases the controller lock while it sleeps; until it
\* wakes, the other caller's requests, the interrupt handler and the
\* hardware run.
LockControllers == {Controller(1, {"ppc", "has_hostpc"}, {})}

LockRequestsTo(n) ==
    {Op("GetPortStatus", "", i, TRUE) : i \in 1 .. n}
    \cup {Op("SetPortFeature", f, i, TRUE) :
            f \in {"RESET", "SUSPEND"}, i \in 1 .. n}
    \cup {Op("ClearPortFeature", f, i, TRUE) :
            f \in {"SUSPEND", "C_SUSPEND"}, i \in 1 .. n}

InitLock == InitOf(LockControllers, {"hs", "fs"})

NextLock == \/ op = NoOp /\ HubControlAtOnce(LockRequestsTo(cfg.n_ports))
            \/ op = NoOp /\ HubControlSleeps(LockRequestsTo(cfg.n_ports))
            \/ op = NoOp /\ HubControlWakes
            \/ op = NoOp /\ HwAttach({"hs", "fs"})
            \/ op = NoOp /\ HwRemoteWakeup
            \/ op = NoOp /\ Irq
            \/ op = NoOp /\ Tick
            \/ Return

SpecLock == InitLock /\ [][NextLock]_vars

\* Every entry point that takes the controller lock, on one-port controllers
\* with and without HOSTPC registers and with the resume and the reset
\* erratum: the waits of each call are noted together with the lock.
WaitControllers ==
    {Controller(1, {"ppc"}, {}),
     Controller(1, {"ppc", "has_hostpc"}, {}),
     Controller(1, {"ppc", "resume_sof_bug"}, {}),
     Controller(1, {"ppc", "reset_sof_bug", "enable_ulpi_control"}, {})}

InitWaits == InitOf(WaitControllers, {"hs", "fs"})

NextWaits == \/ op = NoOp /\ HubControl(BusRequestsTo(cfg.n_ports))
             \/ op = NoOp /\ HubStatusData
             \/ op = NoOp /\ BusSuspend(BOOLEAN)
             \/ op = NoOp /\ BusResume(BOOLEAN)
             \/ op = NoOp /\ AdjustPortWakeupFlags
             \/ op = NoOp /\ HwAccess
             \/ op = NoOp /\ HwAttach({"hs", "fs"})
             \/ op = NoOp /\ HwRemoteWakeup
             \/ op = NoOp /\ Irq
             \/ op = NoOp /\ Tick
             \/ Return

SpecWaits == InitWaits /\ [][NextWaits]_vars

\* The status change poll next to the port requests, on one-port
\* controllers: a plain one, one that ignores over-current, and one with
\* per-port change detect bits.  Devices come and go, over-current and port
\* errors happen, a suspended device signals remote wakeup.
StatusControllers ==
    {Controller(1, {"ppc"}, {}),
     Controller(1, {"ppc", "ignore_oc"}, {}),
     Controller(1, {"ppc", "has_ppcd"}, {})}

StatusRequestsTo(n) ==
    {Op("GetPortStatus", "", i, TRUE) : i \in 1 .. n}
    \cup {Op("SetPortFeature", f, i, TRUE) :
            f \in {"RESET", "SUSPEND"}, i \in 1 .. n}
    \cup {Op("ClearPortFeature", f, i, TRUE) :
            f \in {"SUSPEND", "C_SUSPEND", "C_CONNECTION", "C_ENABLE",
                   "C_OVER_CURRENT"},
            i \in 1 .. n}

InitStatus == InitOf(StatusControllers, {"hs", "fs"})

NextStatus == \/ op = NoOp /\ HubControl(StatusRequestsTo(cfg.n_ports))
              \/ op = NoOp /\ HubStatusData
              \/ op = NoOp /\ HwAttach({"hs", "fs"})
              \/ op = NoOp /\ HwOverCurrent
              \/ op = NoOp /\ HwPortError
              \/ op = NoOp /\ HwRemoteWakeup
              \/ op = NoOp /\ Irq
              \/ op = NoOp /\ Tick
              \/ Return

SpecStatus == InitStatus /\ [][NextStatus]_vars

\* The status change poll on controllers whose packet has one byte and two:
\* NPorts - 1 and NPorts ports, each with a device plugged in when the
\* controller starts or empty.  The hub layer acknowledges connect changes
\* and polls.
BitmapControllers ==
    {Controller(NPorts - 1, {"ppc"}, {}), Controller(NPorts, {"ppc"}, {})}

BitmapRequestsTo(n) ==
    {Op("ClearPortFeature", "C_CONNECTION", i, TRUE) : i \in 1 .. n}

InitBitmap == InitOf(BitmapControllers, {"hs"})

NextBitmap == \/ op = NoOp /\ HubControl(BitmapRequestsTo(cfg.n_ports))
              \/ op = NoOp /\ HubStatusData
              \/ Return

SpecBitmap == InitBitmap /\ [][NextBitmap]_vars

\* Bus suspend and resume next to the port requests and the status change
\* poll, on one-port controllers: a plain one and one with the suspend
\* erratum (the controller is halted before a port is suspended).
SuspendControllers ==
    {Controller(1, {"ppc"}, {}), Controller(1, {"ppc", "susp_sof_bug"}, {})}

InitSuspend == InitOf(SuspendControllers, {"hs", "fs"})

NextSuspend == \/ op = NoOp /\ HubControl(BusRequestsTo(cfg.n_ports))
               \/ op = NoOp /\ HubStatusData
               \/ op = NoOp /\ BusSuspend(BOOLEAN)
               \/ op = NoOp /\ BusResume(BOOLEAN)
               \/ op = NoOp /\ HwAccess
               \/ op = NoOp /\ HwAttach({"hs", "fs"})
               \/ op = NoOp /\ HwRemoteWakeup
               \/ op = NoOp /\ Irq
               \/ op = NoOp /\ Tick
               \/ Return

SpecSuspend == InitSuspend /\ [][NextSuspend]_vars

\* The port requests on one-port controllers whose port is dedicated to the
\* companion controller; on one of them over-current is ignored.  Devices
\* come and go, over-current appears and goes away.
CompanionControllers ==
    {Controller(1, {"ppc"}, {0}), Controller(1, {"ppc", "ignore_oc"}, {0})}

InitCompanion == InitOf(CompanionControllers, DeviceKinds)

NextCompanion ==
    \/ op = NoOp /\ HubControl(PortRequestsTo(cfg.n_ports))
    \/ op = NoOp /\ HwAttach(DeviceKinds)
    \/ op = NoOp /\ HwOverCurrent
    \/ op = NoOp /\ Tick
    \/ Return

SpecCompanion == InitCompanion /\ [][NextCompanion]_vars

\* Reset, suspend and resume of the port of a one-port controller without
\* and with an internal transaction translator.  Devices come and go and
\* the hardware disables the port on a port error.
ResetControllers ==
    {Controller(1, {"ppc"}, {}), Controller(1, {"ppc", "tdi"}, {})}

ResetRequestsTo(n) ==
    {Op("GetPortStatus", "", i, ok) : i \in 1 .. n, ok \in BOOLEAN}
    \cup {Op("SetPortFeature", f, i, TRUE) :
            f \in {"RESET", "SUSPEND", "POWER"}, i \in 1 .. n}
    \cup {Op("ClearPortFeature", f, i, TRUE) :
            f \in {"ENABLE", "SUSPEND", "POWER", "C_CONNECTION"}, i \in 1 .. n}

InitReset == InitOf(ResetControllers, DeviceKinds)

NextReset ==
    \/ op = NoOp /\ HubControl(ResetRequestsTo(cfg.n_ports))
    \/ op = NoOp /\ HwAttach(DeviceKinds)
    \/ op = NoOp /\ HwPortError
    \/ op = NoOp /\ Tick
    \/ Return

SpecReset == InitReset /\ [][NextReset]_vars

\* Port and bus suspend and resume on one-port controllers with selective
\* suspend enabled and disabled.  Besides devices coming and going and
\* remote wakeup, the hardware disables a suspended port on a fault.
ResumeControllers ==
    {Controller(1, {"ppc"}, {}),
     Controller(1, {"ppc", "no_selective_suspend"}, {})}

InitResume == InitOf(ResumeControllers, {"hs", "fs"})

NextResume == \/ op = NoOp /\ HubControl(BusRequestsTo(cfg.n_ports))
              \/ op = NoOp /\ BusSuspend(BOOLEAN)
              \/ op = NoOp /\ BusResume(BOOLEAN)
              \/ op = NoOp /\ HwAttach({"hs", "fs"})
              \/ op = NoOp /\ HwPortFault
              \/ op = NoOp /\ HwRemoteWakeup
              \/ op = NoOp /\ Irq
              \/ op = NoOp /\ Tick
              \/ Return

SpecResume == InitResume /\ [][NextResume]_vars

\* Bus suspend and resume with ports owned by the companion controller, on
\* two-port controllers: one without statically routed ports and one whose
\* second port is dedicated to the companion.  The hub layer resets the
\* first port and reads the status of both; devices are swapped, and the controller
\* may lose power while the root hub is suspended.
HandoverControllers ==
    {Controller(2, {"ppc"}, {}), Controller(2, {"ppc"}, {1})}

HandoverRequestsTo(n) ==
    {Op("GetPortStatus", "", i, TRUE) : i \in 1 .. n}
    \cup {Op("SetPortFeature", "RESET", 1, TRUE)}

InitHandover == InitOf(HandoverControllers, {"hs", "fs"})

NextHandover ==
    \/ op = NoOp /\ HubControl(HandoverRequestsTo(cfg.n_ports))
    \/ op = NoOp /\ BusSuspend({FALSE})
    \/ op = NoOp /\ BusResume(BOOLEAN)
    \/ op = NoOp /\ HwAttach({"hs", "fs"})
    \/ op = NoOp /\ HwPowerLoss
    \/ op = NoOp /\ Tick
    \/ Return

SpecHandover == InitHandover /\ [][NextHandover]_vars

\* Port resets carried to their end, on one-port controllers: a plain one,
\* one with a transaction translator, and one with the reset erratum and a
\* ULPI control hook.  The hub layer
\* resets a port that is not in reset and reads the port status, the
\* hardware ends every reset it is told to end, devices come and go.  The
\* caller of SetPortFeature(RESET) "must wait, then call GetPortStatus":
\* time goes on while a deadline lies ahead, every call returns and the
\* port status is read again and again.
CompletionControllers ==
    {Controller(1, {"ppc"}, {}),
     Controller(1, {"ppc", "tdi"}, {}),
     Controller(1, {"ppc", "reset_sof_bug", "enable_ulpi_control"}, {})}

ResetPort == Op("SetPortFeature", "RESET", 1, TRUE)

ReadPortStatus == Op("GetPortStatus", "", 1, TRUE)

InitCompletion == InitOf(CompletionControllers, DeviceKinds)

NextCompletion ==
    \/ op = NoOp /\ "RESET" \notin portsc[0] /\ HubControl({ResetPort})
    \/ op = NoOp /\ HubControl({ReadPortStatus})
    \/ op = NoOp /\ HwAttach(DeviceKinds)
    \/ op = NoOp /\ Tick
    \/ Return

FairCompletion ==
    /\ WF_vars(Return)
    /\ SF_vars(op = NoOp /\ Tick)
    /\ SF_vars(op = NoOp /\ HubControl({ReadPortStatus}))

SpecCompletion == InitCompletion /\ [][NextCompletion]_vars /\ FairCompletion

\* The state notifier: one caller after another calls state_suspend() and
\* state_resume(), in any order, while the delay of the suspend work runs
\* out and the worker thread of the workqueue runs the works.  The host
\* controller stands by.
InitNotifier == InitOf({Controller(1, {"ppc"}, {})}, {})

NextNotifier ==
    \/ SuspendCalled
    \/ SuspendGoesOn
    \/ ResumeCalled
    \/ ResumeGoesOn
    \/ DelayOver
    \/ WorkTaken
    \/ SuspendWorkRuns
    \/ ResumeWorkRuns

SpecNotifier == InitNotifier /\ [][NextNotifier]_vars

\* The same, where every call that was entered returns, the delay runs out
\* and the workqueue runs what is queued; nobody has to make another call.
FairNotifier ==
    /\ WF_vars(SuspendGoesOn)
    /\ WF_vars(ResumeGoesOn)
    /\ WF_vars(DelayOver)
    /\ WF_vars(WorkTaken)
    /\ WF_vars(SuspendWorkRuns)
    /\ WF_vars(ResumeWorkRuns)

SpecNotifierFair == SpecNotifier /\ FairNotifier

(* ------------------------------ properties ----------------------------- *)

\* the port and global registers
Registers == <<portsc, hostpc, hc_run, ppcd, intr_enable>>

\* the driver's bookkeeping
Trackers ==
    <<rh_state, bus_suspended, owned_ports, suspended_ports, resuming_ports,
      port_c_suspend, reset_done, command_run>>

\* the register writes among the accesses of the last call
Writes(accesses) == {a \in accesses : a[1] = "w"}

PortRequests == {"ClearPortFeature", "SetPortFeature", "GetPortStatus"}

\* the one-based port number a port request names
PortNumber(o) == IF o.name = "SetPortFeature" THEN o.wIndex % 256 ELSE o.wIndex

\* a port request that names one of the controller's ports
ValidPortRequest(o, name) ==
    /\ o.name = name
    /\ PortNumber(o) \in 1 .. cfg.n_ports

\* C1: ClearPortFeature, SetPortFeature and GetPortStatus with a port number
\* of 0 or above the number of ports fail with -EPIPE, access no register
\* (so write none) and change nothing the driver keeps.
C1_BadIndexStalls ==
    [][(/\ op'.name \in PortRequests
        /\ (PortNumber(op') = 0 \/ PortNumber(op') > cfg.n_ports))
       => /\ ret' = "-EPIPE"
          /\ io' = {}
          /\ buf' = NoBuf
          /\ UNCHANGED <<Registers, Trackers>>]_vars

\* C1 happens: a request for the port after the last one has stalled while
\* the driver tracked a suspended port
C1_Witness ==
    /\ op.name = "SetPortFeature"
    /\ op.wValue = "RESET"
    /\ PortNumber(op) = cfg.n_ports + 1
    /\ ret = "-EPIPE"
    /\ suspended_ports # {}

\* C2: SetPortFeature on a valid port that the companion controller owns
\* succeeds without effect, whatever the feature and selector: no register
\* is written and nothing the driver keeps changes.
C2_SetOnOwnedPortNoEffect ==
    [][(/\ ValidPortRequest(op', "SetPortFeature")
        /\ "OWNER" \in portsc[PortNumber(op') - 1])
       => /\ ret' = "0"
          /\ Writes(io') = {}
          /\ buf' = NoBuf
          /\ UNCHANGED <<Registers, Trackers>>]_vars

\* C2 happens: a reset was requested on an owned port
C2_Witness ==
    /\ ValidPortRequest(op, "SetPortFeature")
    /\ op.wValue = "RESET"
    /\ "OWNER" \in portsc[PortNumber(op) - 1]
    /\ ret = "0"

\* C3: ClearPortFeature is processed on an owned port too: C_CONNECTION,
\* C_ENABLE and C_OVER_CURRENT acknowledge their latch (it reads clear after
\* the call) and C_SUSPEND clears the port's port_c_suspend bit.
C3_ClearOnOwnedPortAcks ==
    [][(/\ ValidPortRequest(op', "ClearPortFeature")
        /\ "OWNER" \in portsc[PortNumber(op') - 1])
       => LET p == PortNumber(op') - 1
          IN  /\ op'.wValue = "C_CONNECTION"
                    => ret' = "0" /\ "CSC" \notin portsc'[p]
              /\ op'.wValue = "C_ENABLE"
                    => ret' = "0" /\ "PEC" \notin portsc'[p]
              /\ op'.wValue = "C_OVER_CURRENT"
                    => ret' = "0" /\ "OCC" \notin portsc'[p]
              /\ op'.wValue = "C_SUSPEND"
                    => ret' = "0" /\ p \notin port_c_suspend']_vars

\* C3 happens: the connect change of a handed-over port was acknowledged
\* while its over-current change stays latched
C3_Witness ==
    /\ ValidPortRequest(op, "ClearPortFeature")
    /\ op.wValue = "C_CONNECTION"
    /\ Access("w", "portsc", PortNumber(op) - 1) \in io
    /\ portsc[PortNumber(op) - 1] \cap {"OWNER", "CSC", "OCC"} = {"OWNER", "OCC"}

\* the change bits of the status word and where each comes from
LatchOf(bit) ==
    CASE bit = "C_CONNECTION" -> "CSC"
      [] bit = "C_ENABLE" -> "PEC"
      [] bit = "C_OVER_CURRENT" -> "OCC"

\* GetPortStatus on port p is about to complete a resume: the port signals
\* resume and its deadline has passed
ResumeCompletes(p) ==
    /\ "RESUME" \in portsc[p]
    /\ reset_done[p] # 0
    /\ time_after_eq(jiffies, reset_done[p])

\* C4: no duplicate change notification.  An acknowledged change bit reads
\* clear after its ClearPortFeature; a clear change bit is set again only by
\* a new hardware edge (connect level changed, port disabled by the hardware,
\* over-current level changed) or, for the suspend change, by a GetPortStatus
\* that completes a resume or recovers a lost suspend; and GetPortStatus
\* reports exactly the bits that are set.  So between the acknowledgement
\* and a later report of the same bit there is a new edge.
C4_NoDuplicateChange ==
    [][\A p \in 0 .. (cfg.n_ports - 1) :
        /\ \A bit \in {"C_CONNECTION", "C_ENABLE", "C_OVER_CURRENT"} :
            (/\ ValidPortRequest(op', "ClearPortFeature")
             /\ PortNumber(op') - 1 = p
             /\ op'.wValue = bit)
            => ret' = "0" /\ LatchOf(bit) \notin portsc'[p]
        /\ (/\ ValidPortRequest(op', "ClearPortFeature")
            /\ PortNumber(op') - 1 = p
            /\ op'.wValue = "C_SUSPEND")
           => ret' = "0" /\ p \notin port_c_suspend'
        /\ ("CSC" \notin portsc[p] /\ "CSC" \in portsc'[p])
           => ("CONNECT" \in portsc[p]) # ("CONNECT" \in portsc'[p])
        /\ ("PEC" \notin portsc[p] /\ "PEC" \in portsc'[p])
           => op' = NoOp /\ "PE" \in portsc[p] /\ "PE" \notin portsc'[p]
        /\ ("OCC" \notin portsc[p] /\ "OCC" \in portsc'[p])
           => op' = NoOp /\ ("OC" \in portsc[p]) # ("OC" \in portsc'[p])
        /\ (p \notin port_c_suspend /\ p \in port_c_suspend')
           => /\ ValidPortRequest(op', "GetPortStatus")
              /\ PortNumber(op') - 1 = p
              /\ \/ ResumeCompletes(p)
                 \/ p \in suspended_ports /\ p \notin suspended_ports'
        /\ (/\ ValidPortRequest(op', "GetPortStatus")
            /\ PortNumber(op') - 1 = p
            /\ ret' = "0")
           => /\ "C_CONNECTION" \in buf'.status <=> "CSC" \in portsc[p]
              /\ "C_ENABLE" \in buf'.status <=> "PEC" \in portsc[p]
              /\ "C_OVERCURRENT" \in buf'.status <=> "OCC" \in portsc[p]
              /\ "C_SUSPEND" \in buf'.status <=> p \in port_c_suspend']_vars

\* C4 happens: a connected device whose connect change was acknowledged is
\* reported without the change, and so is a port whose suspend change was
\* set by a completed resume and then acknowledged
C4_Witness ==
    /\ ValidPortRequest(op, "GetPortStatus")
    /\ ret = "0"
    /\ {"CONNECTION", "ENABLE"} \subseteq buf.status
    /\ buf.status \cap {"C_CONNECTION", "C_SUSPEND", "SUSPEND"} = {}
    /\ suspended_ports = {}
    /\ "WKOC_E" \in portsc[PortNumber(op) - 1]

\* C5: with per-port power switching and over-current not ignored, a
\* GetPortStatus that finds the over-current change latched while the
\* over-current condition is active has cleared the port's power bit when
\* it returns, and its status word reports the over-current change and the
\* power bit as read back after the power-off, that is, off.
C5_OverCurrentPowersOff ==
    [][(/\ ValidPortRequest(op', "GetPortStatus")
        /\ cfg.ppc /\ ~cfg.ignore_oc
        /\ {"OCC", "OC"} \subseteq portsc[PortNumber(op') - 1])
       => /\ "POWER" \notin portsc'[PortNumber(op') - 1]
          /\ ret' = "0"
          /\ "C_OVERCURRENT" \in buf'.status
          /\ "POWER" \notin buf'.status]_vars

\* C5 happens: the status of a port in over-current was read and the call
\* wrote the port register
C5_Witness ==
    /\ ValidPortRequest(op, "GetPortStatus")
    /\ {"C_OVERCURRENT", "OVERCURRENT"} \subseteq buf.status
    /\ "POWER" \notin buf.status
    /\ Access("w", "portsc", PortNumber(op) - 1) \in io
    /\ dev[PortNumber(op) - 1] # "none"

\* GetPortStatus on port p is about to complete the reset of a device that
\* is not high speed, and will find it connected and not enabled
ClassifiesFullSpeed(p, ok) ==
    /\ "RESET" \in portsc[p]
    /\ "RESUME" \notin portsc[p]
    /\ time_after_eq(jiffies, reset_done[p])
    /\ ok
    /\ dev[p] \in {"fs", "ls"}
    /\ ~PowerOffOnOverCurrent(St, p, portsc[p])

C6_AsStated ==
    [][(op'.name = "bus_suspend" /\ resuming_ports # {})
       => /\ ret' = "-EBUSY"
          /\ \A p \in Ports : Access("w", "portsc", p) \notin io'
          /\ UNCHANGED <<bus_suspended, owned_ports, rh_state>>]_vars

\* C6, amended: bus_suspend() returns -EBUSY exactly when remote wakeup is
\* enabled for the root hub and a port is mid-resume; it then accesses no
\* register and changes nothing the driver keeps.  With remote wakeup
\* disabled the call goes ahead although a port is mid-resume, and suspends
\* the root hub.
C6_BusyOnlyWithRemoteWakeup ==
    [][op'.name = "bus_suspend"
       => /\ ret' = "-EBUSY" <=> (op'.wValue = "wakeup" /\ resuming_ports # {})
          /\ ret' = "-EBUSY"
             => io' = {} /\ UNCHANGED <<Registers, Trackers>>
          /\ ret' # "-EBUSY"
             => ret' = "0" /\ rh_state' = "SUSPENDED" /\ ~hc_run']_vars

\* C6 happens: a suspend with remote wakeup has been refused while the
\* port was mid-resume
C6_Witness ==
    /\ op.name = "bus_suspend"
    /\ ret = "-EBUSY"
    /\ resuming_ports # {}
    /\ rh_state = "RUNNING"
    /\ hc_run

\* the ports of the controller
ControllerPorts == 0 .. (cfg.n_ports - 1)

\* C7: round trip.  A successful bus_suspend() records in bus_suspended
\* exactly the ports it suspends: those enabled, not suspended and not owned
\* by the companion; it leaves them enabled and suspended, and the suspend
\* state of the others as it was.  A successful bus_resume() of the suspended
\* root hub, on hardware that ends resume signalling when told to, leaves
\* every port of bus_suspended that is still enabled and suspended enabled
\* with suspend and resume clear; on every other port it asserts no resume
\* signal and leaves the suspend state as it was.
C7_RoundTrip ==
    [][/\ (op'.name = "bus_suspend" /\ ret' = "0")
          => /\ bus_suspended' = {p \in ControllerPorts :
                                    SuspendsPort(portsc[p])}
             /\ \A p \in ControllerPorts :
                    IF p \in bus_suspended'
                    THEN {"PE", "SUSPEND"} \subseteq portsc'[p]
                    ELSE "SUSPEND" \in portsc'[p] <=> "SUSPEND" \in portsc[p]
       /\ (/\ op'.name = "bus_resume"
           /\ ret' = "0"
           /\ rh_state = "SUSPENDED"
           /\ op'.ok)
          => \A p \in ControllerPorts :
                IF p \in bus_suspended /\ {"PE", "SUSPEND"} \subseteq portsc[p]
                THEN /\ "PE" \in portsc'[p]
                     /\ portsc'[p] \cap {"SUSPEND", "RESUME"} = {}
                     /\ Access("w", "portsc", p) \in io'
                ELSE /\ "RESUME" \in portsc'[p] => "RESUME" \in portsc[p]
                     /\ "SUSPEND" \in portsc'[p] <=> "SUSPEND" \in portsc[p]
      ]_vars

\* C7 happens: a bus_resume() has resumed the port bus_suspend() suspended
\* and left alone a port suspended through SetPortFeature
C7_Witness ==
    /\ op.name = "bus_resume"
    /\ ret = "0"
    /\ op.ok
    /\ rh_state = "RUNNING"
    /\ \E p, q \in ControllerPorts :
        /\ p \in bus_suspended
        /\ "PE" \in portsc[p]
        /\ portsc[p] \cap {"SUSPEND", "RESUME"} = {}
        /\ q \notin bus_suspended
        /\ q \in suspended_ports
        /\ {"PE", "SUSPEND"} \subseteq portsc[q]

\* the wakeup enables bus_suspend() leaves in a port register
WakeupEnables(t, do_remote_wakeup) ==
    IF ~do_remote_wakeup THEN {}
    ELSE IF "CONNECT" \in t THEN {"WKOC_E", "WKDISC_E"}
    ELSE {"WKOC_E", "WKCONN_E"}

\* the root hub and the ports are as a successful bus_suspend() leaves them
AsLeftBySuspend(do_remote_wakeup) ==
    /\ rh_state = "SUSPENDED"
    /\ ~hc_run
    /\ hw_accessible
    /\ intr_enable = (IF do_remote_wakeup THEN "INTR_MASK"
                      ELSE "INTR_MASK&~STS_PCD")
    /\ \A p \in ControllerPorts :
        /\ portsc[p] \cap PORT_WAKE_BITS
            = WakeupEnables(portsc[p], do_remote_wakeup)
        /\ "RESUME" \notin portsc[p]
        /\ ~SuspendsPort(portsc[p])
        /\ p \in bus_suspended => {"PE", "SUSPEND"} \subseteq portsc[p]

\* C8 as stated: a second bus_suspend() with no bus_resume() in between is
\* refused with -EBUSY only if a port resume is pending; otherwise it
\* succeeds and leaves the port registers, the root-hub state and
\* bus_suspended as the first call left them.
C8_AsStated ==
    [][(/\ op'.name = "bus_suspend"
        /\ AsLeftBySuspend(op'.wValue = "wakeup"))
       => /\ ret' = "-EBUSY" => resuming_ports # {}
          /\ ret' = "0"
             => /\ portsc' = portsc
                /\ rh_state' = rh_state
                /\ bus_suspended' = bus_suspended]_vars

\* C9: bus_resume() of a controller that is not accessible returns
\* -ESHUTDOWN at once: it accesses no register, changes nothing the driver
\* keeps (root-hub state, bus_suspended, owned_ports among it) and so does
\* not hand ports back to the companion.
C9_ResumeShutDown ==
    [][(op'.name = "bus_resume" /\ ~hw_accessible)
       => /\ ret' = "-ESHUTDOWN"
          /\ io' = {}
          /\ UNCHANGED <<Registers, Trackers>>]_vars

\* C9 happens: the resume of a controller that is not accessible was refused
\* while a port was recorded for the handover to the companion
C9_Witness ==
    /\ op.name = "bus_resume"
    /\ ret = "-ESHUTDOWN"
    /\ ~hw_accessible
    /\ owned_ports # {}
    /\ rh_state = "SUSPENDED"

\* C11: SetPortFeature(RESET) on a disconnected, unowned port starts a reset
\* with a deadline of 50 msec and does not set the ownership bit; a
\* GetPortStatus on the disconnected port in reset, before or after the
\* deadline, does not set it either and returns no connection bit; the one
\* after the deadline, when the hardware ends the reset (and the port is not
\* powered off for over-current), returns a status word with reset change
\* set and reset clear.
C11_ResetDisconnected ==
    [][\A p \in 0 .. (cfg.n_ports - 1) :
        /\ (/\ ValidPortRequest(op', "SetPortFeature")
            /\ PortNumber(op') - 1 = p
            /\ op'.wValue = "RESET"
            /\ portsc[p] \cap {"CONNECT", "OWNER", "RESUME"} = {})
           => /\ ret' = "0"
              /\ "OWNER" \notin portsc'[p]
              /\ reset_done'[p] = jiffies + msecs_to_jiffies(50)
              /\ "POWER" \in portsc[p] => "RESET" \in portsc'[p]
        /\ (/\ ValidPortRequest(op', "GetPortStatus")
            /\ PortNumber(op') - 1 = p
            /\ "RESET" \in portsc[p]
            /\ portsc[p] \cap {"CONNECT", "OWNER"} = {})
           => /\ "OWNER" \notin portsc'[p]
              /\ ret' = "0" => "CONNECTION" \notin buf'.status
              /\ (/\ time_after_eq(jiffies, reset_done[p])
                  /\ op'.ok
                  /\ ~PowerOffOnOverCurrent(St, p, portsc[p]))
                 => /\ ret' = "0"
                    /\ "C_RESET" \in buf'.status
                    /\ "RESET" \notin buf'.status
                    /\ "RESET" \notin portsc'[p]]_vars

\* C11 happens: the reset of an empty port has been completed by a
\* GetPortStatus after the deadline
C11_Witness ==
    /\ ValidPortRequest(op, "GetPortStatus")
    /\ ret = "0"
    /\ dev[PortNumber(op) - 1] = "none"
    /\ {"C_RESET", "POWER"} \subseteq buf.status
    /\ "CONNECTION" \notin buf.status
    /\ "OWNER" \notin portsc[PortNumber(op) - 1]

\* C12: ClearPortFeature(SUSPEND) on a valid port whose register does not
\* show the suspend bit writes no register, so asserts no resume signalling,
\* and changes no register and nothing the driver keeps (flags, deadlines);
\* it returns success, or the stall error if the port is mid-reset.  The
\* state being unchanged, repeating the call changes nothing either.
C12_ClearSuspendNotSuspended ==
    [][(/\ ValidPortRequest(op', "ClearPortFeature")
        /\ op'.wValue = "SUSPEND"
        /\ "SUSPEND" \notin portsc[PortNumber(op') - 1])
       => /\ Writes(io') = {}
          /\ UNCHANGED <<Registers, Trackers>>
          /\ buf' = NoBuf
          /\ ret' = (IF "RESET" \in portsc[PortNumber(op') - 1]
                     THEN "-EPIPE" ELSE "0")]_vars

\* C12 happens: the suspend feature of an enabled port that is not suspended
\* has been cleared
C12_Witness ==
    /\ ValidPortRequest(op, "ClearPortFeature")
    /\ op.wValue = "SUSPEND"
    /\ ret = "0"
    /\ "PE" \in portsc[PortNumber(op) - 1]
    /\ "SUSPEND" \notin portsc[PortNumber(op) - 1]
    /\ port_c_suspend # {}

\* the last call was request name for feature on the zero-based port p
PortFeatureRequest(o, name, feature, p) ==
    /\ ValidPortRequest(o, name)
    /\ o.wValue = feature
    /\ PortNumber(o) - 1 = p

\* the call accessed registers only to read them and changed nothing
NothingChanged ==
    /\ Writes(io') = {}
    /\ buf' = NoBuf
    /\ UNCHANGED <<Registers, Trackers>>

\* C13 as stated: SetPortFeature(SUSPEND) on an unowned port that is not
\* enabled or is mid-reset, SetPortFeature(RESET) on an unowned port with a
\* resume in flight, and ClearPortFeature(SUSPEND) on a port mid-reset return
\* the stall error and leave the port register and the tracker unchanged.
C13_AsStated ==
    [][\A p \in 0 .. (cfg.n_ports - 1) :
        (\/ /\ PortFeatureRequest(op', "SetPortFeature", "SUSPEND", p)
            /\ "OWNER" \notin portsc[p]
            /\ "PE" \notin portsc[p] \/ "RESET" \in portsc[p]
         \/ /\ PortFeatureRequest(op', "SetPortFeature", "RESET", p)
            /\ "OWNER" \notin portsc[p]
            /\ "RESUME" \in portsc[p]
         \/ /\ PortFeatureRequest(op', "ClearPortFeature", "SUSPEND", p)
            /\ "RESET" \in portsc[p])
        => ret' = "-EPIPE" /\ NothingChanged]_vars

\* C13, amended: the three requests leave the registers and the tracker
\* unchanged.  SetPortFeature(RESET) with a resume in flight and
\* ClearPortFeature(SUSPEND) mid-reset return the stall error;
\* SetPortFeature(SUSPEND) on a port that is not enabled or is mid-reset
\* returns the stall error unless selective suspend is disabled for the
\* controller, and then it returns success.
C13_PreconditionFails ==
    [][\A p \in 0 .. (cfg.n_ports - 1) :
        /\ (/\ PortFeatureRequest(op', "SetPortFeature", "SUSPEND", p)
            /\ "OWNER" \notin portsc[p]
            /\ "PE" \notin portsc[p] \/ "RESET" \in portsc[p])
           => /\ NothingChanged
              /\ ret' = (IF cfg.no_selective_suspend THEN "0" ELSE "-EPIPE")
        /\ (\/ /\ PortFeatureRequest(op', "SetPortFeature", "RESET", p)
               /\ "OWNER" \notin portsc[p]
               /\ "RESUME" \in portsc[p]
            \/ /\ PortFeatureRequest(op', "ClearPortFeature", "SUSPEND", p)
               /\ "RESET" \in portsc[p])
           => ret' = "-EPIPE" /\ NothingChanged]_vars

\* C13 happens: a suspend of a port in reset has been refused on a
\* controller with selective suspend
C13_Witness ==
    /\ ValidPortRequest(op, "SetPortFeature")
    /\ op.wValue = "SUSPEND"
    /\ ret = "-EPIPE"
    /\ ~cfg.no_selective_suspend
    /\ "RESET" \in portsc[PortNumber(op) - 1]
    /\ dev[PortNumber(op) - 1] # "none"

\* the feature codes ClearPortFeature and SetPortFeature handle
ClearFeatures ==
    {"ENABLE", "C_ENABLE", "SUSPEND", "C_SUSPEND", "POWER", "C_CONNECTION",
     "C_OVER_CURRENT", "C_RESET"}

SetFeatures == {"POWER", "SUSPEND", "RESET", "TEST"}

\* a port request for a feature it does not handle, or SetPortFeature(TEST)
\* with a selector that is not a test mode
UnsupportedFeature(o) ==
    \/ ValidPortRequest(o, "ClearPortFeature") /\ o.wValue \notin ClearFeatures
    \/ ValidPortRequest(o, "SetPortFeature") /\ o.wValue \notin SetFeatures
    \/ /\ ValidPortRequest(o, "SetPortFeature")
       /\ o.wValue = "TEST"
       /\ o.wIndex \div 256 \notin 1 .. 5

\* C14 as stated: in every port state, a companion-owned port included, a
\* port request with an unsupported feature code or test selector fails with
\* the stall error and changes no state.
C14_AsStated ==
    [][UnsupportedFeature(op') => ret' = "-EPIPE" /\ NothingChanged]_vars

\* C14, amended: a port request with an unsupported feature code or test
\* selector changes no state.  ClearPortFeature fails with the stall error
\* in every port state; SetPortFeature fails with the stall error on a port
\* this controller owns and returns success on a companion-owned port.
C14_UnsupportedFeature ==
    [][UnsupportedFeature(op')
       => /\ NothingChanged
          /\ ret' = (IF /\ op'.name = "SetPortFeature"
                        /\ "OWNER" \in portsc[PortNumber(op') - 1]
                     THEN "0" ELSE "-EPIPE")]_vars

\* C14 happens: an unsupported feature was refused by ClearPortFeature on a
\* companion-owned port
C14_Witness ==
    /\ ValidPortRequest(op, "ClearPortFeature")
    /\ op.wValue = "INDICATOR"
    /\ ret = "-EPIPE"
    /\ "OWNER" \in portsc[PortNumber(op) - 1]

\* the request types ehci_hub_control handles
HandledRequests ==
    {"ClearHubFeature", "ClearPortFeature", "GetHubDescriptor", "GetHubStatus",
     "GetPortStatus", "SetHubFeature", "SetPortFeature"}

\* the hub layer's requests, as opposed to the bus calls and to no call
HubRequest(o) == o \in Requests(cfg.n_ports)

\* C15: ClearHubFeature and SetHubFeature return success for the feature
\* codes local-power and over-current and the stall error for any other; a
\* request of a type that is not handled returns the stall error; in each of
\* these cases no register is accessed and nothing changes.
C15_HubFeatures ==
    [][/\ op'.name \in {"ClearHubFeature", "SetHubFeature"}
          => /\ ret' = (IF op'.wValue \in {"C_HUB_LOCAL_POWER",
                                           "C_HUB_OVER_CURRENT"}
                        THEN "0" ELSE "-EPIPE")
             /\ io' = {}
             /\ buf' = NoBuf
             /\ UNCHANGED <<Registers, Trackers>>
       /\ (HubRequest(op') /\ op'.name \notin HandledRequests)
          => /\ ret' = "-EPIPE"
             /\ io' = {}
             /\ buf' = NoBuf
             /\ UNCHANGED <<Registers, Trackers>>]_vars

\* C15 happens: a hub feature other than the two legal ones was refused
\* while the driver tracked a suspended port
C15_Witness ==
    /\ op.name = "SetHubFeature"
    /\ op.wValue = "C_HUB_PORT_INDICATOR"
    /\ ret = "-EPIPE"
    /\ suspended_ports # {}


\* C16: over every sequence of hub_control, hub_status_data, bus_suspend and
\* bus_resume calls, a port whose resuming flag is set has its reset/resume
\* deadline set (non-zero).
C16_ResumingHasDeadline ==
    \A p \in resuming_ports : reset_done[p] # 0

\* C16 happens: the status change poll has run while a port was resuming
\* with its deadline passed
C16_Witness ==
    /\ op.name = "hub_status_data"
    /\ ret = "1"
    /\ \E p \in resuming_ports :
          reset_done[p] # 0 /\ time_after_eq(jiffies, reset_done[p])

\* the register of port p shows that the hardware has suspended the port or
\* is resuming it
ShowsSuspend(p) == (portsc[p] \cap {"SUSPEND", "RESUME"}) # {}

\* C17: the suspend-change flag of a port is set only if the port register
\* shows suspend or resume at that moment, or has shown one of them since
\* the port was last recorded as suspended; a suspend that was recorded but
\* never reached the hardware sets no suspend-change flag.
C17_AsStated ==
    [][\A p \in Ports :
          (p \in port_c_suspend' /\ p \notin port_c_suspend)
          => ShowsSuspend(p) \/ p \in suspend_shown]_vars


\* the call that has just returned gave port p to the companion controller
HandsOver(p) ==
    /\ op'.name \in {"SetPortFeature", "GetPortStatus"}
    /\ "OWNER" \in portsc'[p]
    /\ "OWNER" \notin portsc[p]

\* C18: after a hub_control call that hands a port to the companion
\* controller, the port's suspended and resuming flags are clear.
C18_AsStated ==
    [][\A p \in Ports :
          HandsOver(p) => p \notin suspended_ports' \cup resuming_ports']_vars


\* C19: whenever a SetPortFeature or ClearPortFeature in flight has released
\* the controller lock, the port's register and its tracker flags agree: the
\* register does not show the suspend bit while the suspended flag is unset
\* (what a GetPortStatus of the other caller would observe).
C19_AsStated ==
    pending # NoPending
    => ("SUSPEND" \in portsc[PortNumber(pending.o) - 1]
        => PortNumber(pending.o) - 1 \in suspended_ports)


\* what a call has noted: something of this kind done with the lock held
\* (TRUE) or without it (FALSE)
Noted(events, kind, held) == <<kind, held>> \in events

\* every lock is taken while free and dropped while held, and the call
\* leaves with the lock free
LockBalanced(events, held) ==
    /\ ~Noted(events, "lock", TRUE)
    /\ ~Noted(events, "unlock", FALSE)
    /\ ~held

\* C20: every wait of a call, a handshake busy-poll as well as a sleep, is
\* made with the controller lock released; no register is accessed without
\* the lock; every path out of a call has released the lock exactly once.
C20_AsStated ==
    /\ ~Noted(sync, "sleep", TRUE)
    /\ ~Noted(sync, "poll", TRUE)
    /\ ~Noted(sync, "access", FALSE)
    /\ LockBalanced(sync, lock)

\* C20, amended: every sleep of a call is made with the controller lock
\* released, every handshake busy-poll and the delay of bus_suspend with the
\* lock held; a register is accessed without the lock only by the companion
\* handover that bus_resume runs after it has released the lock; every path
\* out of a call leaves the lock released, each taking matched by a release.
C20_Waits ==
    [][/\ ~Noted(sync', "sleep", TRUE)
       /\ ~Noted(sync', "poll", FALSE)
       /\ ~Noted(sync', "delay", FALSE)
       /\ Noted(sync', "access", FALSE)
          => op'.name = "bus_resume" /\ ret' = "0" /\ owned_ports # {}
       /\ LockBalanced(sync', lock')]_vars

\* C20 happens: a bus_resume has returned that slept without the lock and
\* polled the port register with the lock held
C20_Witness ==
    /\ op.name = "bus_resume"
    /\ ret = "0"
    /\ Noted(sync, "sleep", FALSE)
    /\ Noted(sync, "poll", TRUE)
    /\ ~lock

\* port p has a change pending: a connect or enable change latch, an
\* over-current change latch that is not ignored, the suspend change flag,
\* or a reset or resume deadline that has passed
ChangePending(p) ==
    \/ (portsc[p] \cap {"CSC", "PEC"}) # {}
    \/ "OCC" \in portsc[p] /\ ~cfg.ignore_oc
    \/ p \in port_c_suspend
    \/ reset_done[p] # 0 /\ time_after_eq(jiffies, reset_done[p])

\* the status change packet in the caller's buffer has the bit of port p set
PortReported(b, p) ==
    /\ b.kind = "changes"
    /\ ChangeBit(p)[1] + 1 \in DOMAIN b.desc
    /\ BitOf(b.desc[ChangeBit(p)[1] + 1], ChangeBit(p)[2]) = 1

\* C21: while the root hub is running, hub_status_data returns nonzero with
\* the port's bit set in the packet for every port that has a change
\* pending, on every controller (with per-port change detect bits too).
C21_AsStated ==
    [][(op'.name = "hub_status_data" /\ rh_state = "RUNNING")
       => \A p \in ControllerPorts :
            ChangePending(p) => ret' # "0" /\ PortReported(buf', p)]_vars

\* the bits of the status change packet b that are set, as <<byte, bit>>
\* with the bytes numbered from 0
BitsSet(b) ==
    {at \in (0 .. (Len(b.desc) - 1)) \X (0 .. 7) :
        BitOf(b.desc[at[1] + 1], at[2]) = 1}

\* where the claim has the change of port i reported
BitmapPlace(i) == IF i < 7 THEN <<0, i + 1>> ELSE <<1, i - 7>>

\* C22: the status change packet written by hub_status_data has one bit per
\* port, port i < 7 in bit i + 1 of the first byte and port i >= 7 in bit
\* i - 7 of the second; bit 0 of the first byte is never set and no bit is
\* set but those of ports with a change pending (all of them, on a
\* controller without per-port change detect bits); the packet has 1 byte
\* for at most 7 ports and 2 otherwise, and the call returns that length
\* or 0.
C22_Bitmap ==
    [][(op'.name = "hub_status_data" /\ rh_state = "RUNNING")
       => /\ buf'.kind = "changes"
          /\ Len(buf'.desc) = (IF cfg.n_ports <= 7 THEN 1 ELSE 2)
          /\ ret' \in {"0", IF cfg.n_ports <= 7 THEN "1" ELSE "2"}
          /\ <<0, 0>> \notin BitsSet(buf')
          /\ BitsSet(buf') \subseteq
                {BitmapPlace(i) : i \in {p \in ControllerPorts : ChangePending(p)}}
          /\ ~cfg.has_ppcd
                => BitsSet(buf') =
                     {BitmapPlace(i) :
                        i \in {p \in ControllerPorts : ChangePending(p)}}]_vars

\* C22 happens: of a controller with more than 7 ports, the last port of
\* the first byte and the first port of the second have a change pending
\* and no other port has, and the poll has returned two bytes
C22_Witness ==
    /\ op.name = "hub_status_data"
    /\ cfg.n_ports > 7
    /\ ret = "2"
    /\ buf.desc = <<128, 1>>
    /\ {p \in ControllerPorts : ChangePending(p)} = {6, 7}

\* C23: the root hub goes from RUNNING to SUSPENDED and back.  A bus_suspend
\* that succeeds leaves it SUSPENDED with the controller halted (CMD_RUN
\* clear), a bus_resume that succeeds leaves it RUNNING, one that fails
\* changes nothing, the state changes in no other way, and while the root
\* hub is not RUNNING hub_status_data returns 0.
C23_AsStated ==
    [][/\ (op'.name = "bus_suspend" /\ ret' = "0")
            => rh_state' = "SUSPENDED" /\ ~hc_run'
       /\ (op'.name = "bus_resume" /\ ret' = "0") => rh_state' = "RUNNING"
       /\ (op'.name \in {"bus_suspend", "bus_resume"} /\ ret' # "0")
            => UNCHANGED <<Registers, Trackers>>
       /\ rh_state' # rh_state
            => \/ /\ rh_state = "RUNNING" /\ rh_state' = "SUSPENDED"
                  /\ op'.name = "bus_suspend"
               \/ /\ rh_state = "SUSPENDED" /\ rh_state' = "RUNNING"
                  /\ op'.name = "bus_resume"
       /\ (op'.name = "hub_status_data" /\ rh_state # "RUNNING")
            => ret' = "0" /\ buf' = NoBuf]_vars

\* everything the driver keeps but the reset and resume deadlines
TrackersButDeadline ==
    <<rh_state, bus_suspended, owned_ports, suspended_ports, resuming_ports,
      port_c_suspend, command_run>>

\* the deadlines of the ports other than p stay as they are
OtherDeadlinesKept(p) ==
    \A q \in Ports \ {p} : reset_done'[q] = reset_done[q]

\* C24: GetPortStatus never completes a resume early.  A call that finds the
\* resume bit in the port register at its resume check (it has not just
\* switched the port's power off for over-current), with no deadline
\* recorded, only arms a deadline 20 msec ahead; with a deadline that has not
\* passed it changes nothing; and it de-asserts the resume bit or sets the
\* suspend change flag only if the deadline has passed.
C24_NoEarlyResume ==
    [][\A p \in ControllerPorts :
        (/\ PortFeatureRequest(op', "GetPortStatus", "", p)
         /\ "RESUME" \in portsc[p]
         /\ ~PowerOffOnOverCurrent(St, p, portsc[p]))
        => /\ reset_done[p] = 0
                => /\ reset_done'[p] = jiffies + msecs_to_jiffies(20)
                   /\ OtherDeadlinesKept(p)
                   /\ UNCHANGED <<Registers, TrackersButDeadline>>
           /\ (reset_done[p] # 0 /\ ~time_after_eq(jiffies, reset_done[p]))
                => UNCHANGED <<Registers, Trackers>>
           /\ ("RESUME" \notin portsc'[p]
               \/ (p \notin port_c_suspend /\ p \in port_c_suspend'))
                => reset_done[p] # 0 /\ time_after_eq(jiffies, reset_done[p])]_vars

\* C24 happens: a GetPortStatus has found the port resuming before its
\* deadline, so later than the call that armed it, and has left it resuming
C24_Witness ==
    \E p \in ControllerPorts :
        /\ PortFeatureRequest(op, "GetPortStatus", "", p)
        /\ ret = "0"
        /\ "RESUME" \in portsc[p]
        /\ reset_done[p] > jiffies
        /\ reset_done[p] < jiffies + msecs_to_jiffies(20)
        /\ p \in suspended_ports
        /\ p \notin port_c_suspend
        /\ "SUSPEND" \in buf.status

\* C25: a GetPortStatus that completes a resume (it finds the resume bit at
\* its resume check, the deadline has passed and the handshake succeeds)
\* leaves the port's suspended and resuming flags clear, its deadline
\* cleared, its suspend change flag set and the resume bit clear in the
\* register, and returns a status word with suspend change set and the
\* suspend status clear.
C25_ResumeCompleted ==
    [][\A p \in ControllerPorts :
        (/\ PortFeatureRequest(op', "GetPortStatus", "", p)
         /\ "RESUME" \in portsc[p]
         /\ ~PowerOffOnOverCurrent(St, p, portsc[p])
         /\ reset_done[p] # 0
         /\ time_after_eq(jiffies, reset_done[p])
         /\ ret' = "0")
        => /\ p \notin suspended_ports'
           /\ p \notin resuming_ports'
           /\ reset_done'[p] = 0
           /\ p \in port_c_suspend'
           /\ "RESUME" \notin portsc'[p]
           /\ buf'.kind = "port_status"
           /\ "C_SUSPEND" \in buf'.status
           /\ "SUSPEND" \notin buf'.status]_vars

\* C25 happens: a GetPortStatus has stopped the resume signalling of an
\* enabled port and reported the suspend change
C25_Witness ==
    \E p \in ControllerPorts :
        /\ PortFeatureRequest(op, "GetPortStatus", "", p)
        /\ ret = "0"
        /\ Access("w", "portsc", p) \in io
        /\ {"C_SUSPEND", "ENABLE", "POWER"} \subseteq buf.status
        /\ buf.status \cap {"SUSPEND", "C_RESET"} = {}
        /\ p \in port_c_suspend
        /\ p \notin suspended_ports
        /\ {"PE", "POWER"} \subseteq portsc[p]
        /\ portsc[p] \cap {"RESUME", "SUSPEND"} = {}

\* a GetPortStatus on port p finds the reset bit in the port register when
\* it gets to the reset check (it has not just switched the port's power
\* off for over-current)
ResetShown(p) ==
    /\ "RESET" \in portsc[p]
    /\ ~PowerOffOnOverCurrent(St, p, portsc[p])

\* C26 as stated: a GetPortStatus that returns a status word reports reset
\* change exactly when it finds the reset bit and the deadline recorded for
\* that reset has passed; it has then forced the reset bit clear, cleared
\* the deadline and the resuming flag and classified the port (handed over
\* if a device is connected and not enabled, kept otherwise).  A call
\* before the deadline reports reset without reset change.  The reset bit
\* is set again only by a SetPortFeature(RESET), so no later GetPortStatus
\* reports reset change until then, and ClearPortFeature(C_RESET) does
\* nothing.
C26_AsStated ==
    [][\A p \in ControllerPorts :
        /\ (PortFeatureRequest(op', "GetPortStatus", "", p) /\ ret' = "0")
           => /\ "C_RESET" \in buf'.status
                    <=> (/\ ResetShown(p)
                         /\ reset_due[p] # 0
                         /\ time_after_eq(jiffies, reset_due[p]))
              /\ "C_RESET" \in buf'.status
                    => /\ "RESET" \notin portsc'[p]
                       /\ "RESET" \notin buf'.status
                       /\ reset_done'[p] = 0
                       /\ p \notin resuming_ports'
                       /\ "OWNER" \in portsc'[p]
                            <=> (dev[p] \in {"fs", "ls"} /\ ~cfg.tdi)
                       /\ "PE" \in portsc'[p] <=> dev[p] = "hs"
              /\ (ResetShown(p) /\ ~time_after_eq(jiffies, reset_due[p]))
                    => /\ "RESET" \in buf'.status
                       /\ "RESET" \in portsc'[p]
        /\ ("RESET" \notin portsc[p] /\ "RESET" \in portsc'[p])
           => PortFeatureRequest(op', "SetPortFeature", "RESET", p)
        /\ PortFeatureRequest(op', "ClearPortFeature", "C_RESET", p)
           => ret' = "0" /\ NothingChanged]_vars

\* the GetPortStatus on port p about to run tries to end a resume or a reset
\* and waits for the hardware to clear the bit
CompletionTried(p) ==
    /\ ~PowerOffOnOverCurrent(St, p, portsc[p])
    /\ time_after_eq(jiffies, reset_done[p])
    /\ \/ "RESUME" \in portsc[p] /\ reset_done[p] # 0
       \/ "RESUME" \notin portsc[p] /\ "RESET" \in portsc[p]

\* C27: when the hardware does not clear the resume or reset bit in the time
\* GetPortStatus waits for it, the call fails with -EPIPE and writes no
\* status word; it has written the port register once and not again, so the
\* bit is still set, and the failure is not passed over: a GetPortStatus
\* that returns a status word has not waited in vain.
C27_HandshakeTimeout ==
    [][\A p \in ControllerPorts :
        (PortFeatureRequest(op', "GetPortStatus", "", p) /\ CompletionTried(p))
           => IF op'.ok
              THEN ret' = "0" /\ buf'.kind = "port_status"
              ELSE /\ ret' = "-EPIPE"
                   /\ buf' = NoBuf
                   /\ Writes(io') = {Access("w", "portsc", p)}
                   /\ (portsc'[p] \cap {"RESUME", "RESET"})
                          = (portsc[p] \cap {"RESUME", "RESET"})
                   /\ <<"poll", TRUE>> \in sync']_vars

\* C27 happens: a GetPortStatus has failed on a reset that the hardware did
\* not end in time
C27_Witness ==
    /\ ValidPortRequest(op, "GetPortStatus")
    /\ ~op.ok
    /\ ret = "-EPIPE"
    /\ buf = NoBuf
    /\ "RESET" \in portsc[PortNumber(op) - 1]
    /\ Access("w", "portsc", PortNumber(op) - 1) \in io

\* the GetPortStatus on port p about to run writes the port over to the
\* companion controller: the port is dedicated to it and shows a connection
\* when the reset handling is over
HandsToCompanion(p) ==
    /\ p \in cfg.companion_ports
    /\ "CONNECT" \in portsc[p]
    /\ ~PowerOffOnOverCurrent(St, p, portsc[p])

\* C28: the status word of a GetPortStatus reports connect change, enable
\* change and (unless over-current is ignored) over-current change exactly
\* for the latches the port register shows when the call starts, also when
\* the call powers the port off for over-current or hands the port to the
\* companion controller; and no GetPortStatus clears a latch in the
\* register: every latch set when the call starts is still set after it.
C28_ChangesFirst ==
    [][\A p \in ControllerPorts :
        PortFeatureRequest(op', "GetPortStatus", "", p)
           => /\ (portsc[p] \cap PORT_RWC_BITS) \subseteq portsc'[p]
              /\ ret' = "0"
                 => /\ "C_CONNECTION" \in buf'.status <=> "CSC" \in portsc[p]
                    /\ "C_ENABLE" \in buf'.status <=> "PEC" \in portsc[p]
                    /\ "C_OVERCURRENT" \in buf'.status
                          <=> ("OCC" \in portsc[p] /\ ~cfg.ignore_oc)
                    /\ PowerOffOnOverCurrent(St, p, portsc[p])
                          => "POWER" \notin portsc'[p]
                    /\ HandsToCompanion(p)
                          => Access("w", "portsc", p) \in io']_vars

\* C28 happens: a GetPortStatus has handed a dedicated port to the companion
\* controller and reported the over-current change it found, and the latch
\* is still set
C28_Witness ==
    /\ ValidPortRequest(op, "GetPortStatus")
    /\ ret = "0"
    /\ Access("w", "portsc", PortNumber(op) - 1) \in io
    /\ {"OWNER", "OCC"} \subseteq portsc[PortNumber(op) - 1]
    /\ "C_OVERCURRENT" \in buf.status

\* the register of port p once the hardware has ended the reset that the
\* GetPortStatus about to run forces to complete: what the call reads back
\* and classifies
AfterReset(p) ==
    PortWrite(portsc[p], portsc[p] \ (PORT_RWC_BITS \cup {"RESET"}), dev[p],
              cfg.ppc, TRUE)

\* the GetPortStatus on port p about to run completes a reset and classifies
\* the port
ClassifiesPort(p) ==
    /\ PortFeatureRequest(op', "GetPortStatus", "", p)
    /\ op'.ok
    /\ "RESET" \in portsc[p]
    /\ "RESUME" \notin portsc[p]
    /\ time_after_eq(jiffies, reset_done[p])
    /\ ~PowerOffOnOverCurrent(St, p, portsc[p])

\* C29: the classification at the end of a reset sets the owner bit exactly
\* when the port is still connected, not enabled, and the controller has no
\* internal transaction translator.  A port without a connection, an
\* enabled port, and a connected port that is not enabled on a controller
\* with a transaction translator are kept: the register stays as the end of
\* the reset left it, and the call still returns the status word.
C29_Classification ==
    [][\A p \in ControllerPorts :
        ClassifiesPort(p)
           => /\ ret' = "0"
              /\ "C_RESET" \in buf'.status
              /\ "OWNER" \in portsc'[p]
                    <=> /\ "CONNECT" \in AfterReset(p)
                        /\ "PE" \notin AfterReset(p)
                        /\ ~cfg.tdi
              /\ "OWNER" \notin portsc'[p]
                    => /\ portsc'[p] = AfterReset(p)
                       /\ "CONNECTION" \in buf'.status
                             <=> "CONNECT" \in AfterReset(p)
                       /\ "ENABLE" \in buf'.status <=> "PE" \in AfterReset(p)]_vars

\* C29 happens: on a controller with a transaction translator a reset has
\* completed on a port that is connected and not enabled, and the port is
\* kept
C29_Witness ==
    /\ ValidPortRequest(op, "GetPortStatus")
    /\ ret = "0"
    /\ cfg.tdi
    /\ {"C_RESET", "CONNECTION"} \subseteq buf.status
    /\ "ENABLE" \notin buf.status
    /\ "OWNER" \notin portsc[PortNumber(op) - 1]

\* SetPortFeature(RESET) on port p is about to run on a port this controller
\* owns, with no resume signalling on it
ResetRequested(p) ==
    /\ PortFeatureRequest(op', "SetPortFeature", "RESET", p)
    /\ "OWNER" \notin portsc[p]
    /\ "RESUME" \notin portsc[p]

\* the port is connected and not enabled, its line state shows a device for
\* the companion controller, and there is no transaction translator
RoutedAway(p) ==
    /\ "CONNECT" \in portsc[p]
    /\ "PE" \notin portsc[p]
    /\ PORT_USB11(portsc[p])
    /\ ~cfg.tdi

\* C30: SetPortFeature(RESET) on a port this controller owns, with no resume
\* in flight, succeeds and does exactly one of two things.  If the port is
\* connected and not enabled, the line state shows a device for the
\* companion and the controller has no transaction translator, it sets the
\* owner bit, asserts no reset and records no deadline.  Otherwise it
\* records a deadline 50 ms ahead, leaves the port not enabled and not
\* owned, and asserts reset (the register of a powered port shows it).
C30_ResetOrHandoff ==
    [][\A p \in ControllerPorts :
        ResetRequested(p)
           => /\ ret' = "0"
              /\ IF RoutedAway(p)
                 THEN /\ "OWNER" \in portsc'[p]
                      /\ "RESET" \notin portsc'[p]
                      /\ reset_done'[p] = reset_done[p]
                 ELSE /\ "OWNER" \notin portsc'[p]
                      /\ "PE" \notin portsc'[p]
                      /\ "POWER" \in portsc[p] => "RESET" \in portsc'[p]
                      /\ reset_done'[p] = jiffies + msecs_to_jiffies(50)]_vars

\* C30 happens: SetPortFeature(RESET) has handed a port over instead of
\* resetting it
C30_Witness ==
    /\ ValidPortRequest(op, "SetPortFeature")
    /\ op.wValue = "RESET"
    /\ ret = "0"
    /\ {"OWNER", "POWER"} \subseteq portsc[PortNumber(op) - 1]
    /\ "RESET" \notin portsc[PortNumber(op) - 1]
    /\ Access("w", "portsc", PortNumber(op) - 1) \in io
    /\ reset_done[PortNumber(op) - 1] = 0

\* C31 as stated: on every controller on which selective suspend is not
\* disabled, a SetPortFeature(SUSPEND) that succeeds on a port this
\* controller owns, enabled and not in reset, leaves the suspend bit set in
\* the port register, wake on disconnect and wake on over-current armed,
\* wake on connect disarmed, and the port recorded in suspended_ports.
C31_AsStated ==
    [][\A p \in ControllerPorts :
        (/\ PortFeatureRequest(op', "SetPortFeature", "SUSPEND", p)
         /\ ret' = "0"
         /\ ~cfg.no_selective_suspend
         /\ "PE" \in portsc[p]
         /\ "RESET" \notin portsc[p]
         /\ "OWNER" \notin portsc[p])
           => /\ "SUSPEND" \in portsc'[p]
              /\ {"WKDISC_E", "WKOC_E"} \subseteq portsc'[p]
              /\ "WKCONN_E" \notin portsc'[p]
              /\ p \in suspended_ports']_vars

\* C32: ClearPortFeature(SUSPEND) on a port that is not in reset.  With
\* selective suspend enabled, on an enabled and suspended port it succeeds,
\* leaves the wake enables clear and the resume bit set in the port
\* register and records a deadline 20 ms ahead; on a suspended port that is
\* not enabled it fails with -EPIPE and changes nothing.  With selective
\* suspend disabled it succeeds and changes nothing.
C32_ResumeSignalling ==
    [][\A p \in ControllerPorts :
        (/\ PortFeatureRequest(op', "ClearPortFeature", "SUSPEND", p)
         /\ "RESET" \notin portsc[p])
           => IF cfg.no_selective_suspend
              THEN ret' = "0" /\ NothingChanged
              ELSE /\ {"PE", "SUSPEND"} \subseteq portsc[p]
                      => /\ ret' = "0"
                         /\ (portsc'[p] \cap PORT_WAKE_BITS) = {}
                         /\ "RESUME" \in portsc'[p]
                         /\ reset_done'[p] = jiffies + msecs_to_jiffies(20)
                   /\ ("SUSPEND" \in portsc[p] /\ "PE" \notin portsc[p])
                      => ret' = "-EPIPE" /\ NothingChanged]_vars

\* C32 happens: ClearPortFeature(SUSPEND) has started resume signalling on a
\* port whose wake enables were armed by its suspend
C32_Witness ==
    /\ ValidPortRequest(op, "ClearPortFeature")
    /\ op.wValue = "SUSPEND"
    /\ ret = "0"
    /\ {"PE", "SUSPEND", "RESUME"} \subseteq portsc[PortNumber(op) - 1]
    /\ (portsc[PortNumber(op) - 1] \cap PORT_WAKE_BITS) = {}
    /\ PortNumber(op) - 1 \in suspended_ports
    /\ reset_done[PortNumber(op) - 1] = jiffies + msecs_to_jiffies(20)

\* the port is recorded as suspended although its register shows neither
\* suspend nor resume
LostSuspend(p) ==
    /\ p \in suspended_ports
    /\ (portsc[p] \cap {"SUSPEND", "RESUME"}) = {}

\* C33 as stated: the status word of a GetPortStatus has the suspend bit
\* when the register shows suspend or resume after the call, or when the
\* port was recorded as suspended although the register showed neither; in
\* that case the call also clears the port's suspended and resuming flags
\* and its deadline and reports suspend change.
C33_AsStated ==
    [][\A p \in ControllerPorts :
        (PortFeatureRequest(op', "GetPortStatus", "", p) /\ ret' = "0")
           => /\ "SUSPEND" \in buf'.status
                    <=> \/ (portsc'[p] \cap {"SUSPEND", "RESUME"}) # {}
                        \/ LostSuspend(p)
              /\ LostSuspend(p)
                    => /\ p \notin suspended_ports'
                       /\ p \notin resuming_ports'
                       /\ reset_done'[p] = 0
                       /\ p \in port_c_suspend'
                       /\ "C_SUSPEND" \in buf'.status]_vars

\* C33: the status word of a GetPortStatus has the suspend bit exactly when
\* the register shows suspend or resume after the call.  When the port was
\* recorded as suspended although the register showed neither, the suspend
\* bit is clear, the call has cleared the port's suspended and resuming
\* flags and its deadline, and it has noted a suspend change exactly if the
\* port is enabled or a change was noted before; the word reports what is
\* noted.
C33_LostSuspend ==
    [][\A p \in ControllerPorts :
        (PortFeatureRequest(op', "GetPortStatus", "", p) /\ ret' = "0")
           => /\ "SUSPEND" \in buf'.status
                    <=> (portsc'[p] \cap {"SUSPEND", "RESUME"}) # {}
              /\ "C_SUSPEND" \in buf'.status <=> p \in port_c_suspend'
              /\ LostSuspend(p)
                    => /\ "SUSPEND" \notin buf'.status
                       /\ p \notin suspended_ports'
                       /\ p \notin resuming_ports'
                       /\ reset_done'[p] = 0
                       /\ p \in port_c_suspend'
                            <=> ("PE" \in portsc'[p] \/ p \in port_c_suspend)]_vars

\* C33 happens: after a GetPortStatus that wrote no register, a port that
\* still shows the wake enables of its suspend, but no suspend, no resume
\* and no enable, is not recorded as suspended, and the status word has
\* neither the suspend bit nor suspend change
C33_Witness ==
    /\ ValidPortRequest(op, "GetPortStatus")
    /\ ret = "0"
    /\ Writes(io) = {}
    /\ PortNumber(op) - 1 \notin suspended_ports
    /\ "WKDISC_E" \in portsc[PortNumber(op) - 1]
    /\ portsc[PortNumber(op) - 1] \cap {"PE", "SUSPEND", "RESUME"} = {}
    /\ buf.status \cap {"SUSPEND", "C_SUSPEND"} = {}

\* the ports that a bus_suspend() about to run finds enabled, not suspended
\* and not owned by the companion controller
ToSuspend ==
    {p \in ControllerPorts :
        /\ "PE" \in portsc[p]
        /\ "SUSPEND" \notin portsc[p]
        /\ "OWNER" \notin portsc[p]}

\* C34: after a successful bus_suspend(), bus_suspended is exactly the set
\* of ports it found enabled, not suspended and not owned, and owned_ports
\* is exactly the set of ports whose register showed the owner bit.  The
\* suspend bit is set in the register of those ports; a port that was
\* enabled and suspended before stays suspended and is not recorded; no
\* other port gets the suspend bit.
C34_BusSuspendPorts ==
    [][(op'.name = "bus_suspend" /\ ret' = "0")
        => /\ bus_suspended' = ToSuspend
           /\ owned_ports' = {p \in ControllerPorts : "OWNER" \in portsc[p]}
           /\ \A p \in ControllerPorts :
                /\ p \in ToSuspend => "SUSPEND" \in portsc'[p]
                /\ {"PE", "SUSPEND"} \subseteq portsc[p]
                      => "SUSPEND" \in portsc'[p] /\ p \notin bus_suspended'
                /\ (p \notin ToSuspend /\ "SUSPEND" \notin portsc[p])
                      => "SUSPEND" \notin portsc'[p]]_vars

\* C34 happens: a bus_suspend() has suspended and recorded one port and
\* left out another that was already suspended
C34_Witness ==
    /\ op.name = "bus_suspend"
    /\ ret = "0"
    /\ bus_suspended # {}
    /\ \E p \in ControllerPorts :
            /\ p \in suspended_ports
            /\ p \notin bus_suspended
            /\ {"PE", "SUSPEND"} \subseteq portsc[p]

\* C35: every bus_resume() of an accessible controller returns 0, and when
\* it returns owned_ports is empty.  Of the ports recorded as owned when it
\* was called: one whose register shows the owner bit keeps it and its
\* change latches; one whose register does not show it (after a power
\* loss) ends either owned by the companion with the connect change
\* acknowledged, or not enabled, none is left both unowned and enabled, and
\* this holds for each such port whatever became of the others.  When the
\* hardware ends a reset in time, a full-speed device on a port without
\* static routing, and any device on a statically routed port that is not
\* in reset, ends owned by the companion, and a high-speed device on a port without static
\* routing ends neither owned, enabled nor in reset.
C35_HandoverRecovery ==
    [][(op'.name = "bus_resume" /\ hw_accessible)
        => /\ ret' = "0"
           /\ owned_ports' = {}
           /\ \A p \in owned_ports :
                IF "OWNER" \in portsc[p]
                THEN /\ "OWNER" \in portsc'[p]
                     /\ (portsc[p] \cap PORT_RWC_BITS) \subseteq portsc'[p]
                ELSE /\ ~("OWNER" \notin portsc'[p] /\ "PE" \in portsc'[p])
                     /\ "OWNER" \in portsc'[p] => "CSC" \notin portsc'[p]
                     /\ "OWNER" \notin portsc'[p] => "PE" \notin portsc'[p]
                     /\ (p \in cfg.companion_ports /\ dev[p] # "none"
                            /\ "RESET" \notin portsc[p])
                           => "OWNER" \in portsc'[p]
                     /\ (p \notin cfg.companion_ports /\ dev[p] = "fs" /\ op'.ok)
                           => "OWNER" \in portsc'[p]
                     /\ (p \notin cfg.companion_ports /\ dev[p] = "hs" /\ op'.ok)
                           => portsc'[p] \cap {"OWNER", "PE", "RESET"} = {}]_vars

\* C35 happens: after a power loss a bus_resume() has handed the statically
\* routed port back to the companion and force-disabled the other, on
\* which a high-speed device had been enabled by the reset
C35_Witness ==
    /\ op.name = "bus_resume"
    /\ ret = "0"
    /\ owned_ports = {}
    /\ dev[1] = "fs" /\ "OWNER" \in portsc[1] /\ "CSC" \notin portsc[1]
    /\ dev[0] = "hs" /\ portsc[0] \cap {"OWNER", "PE", "RESET"} = {}
    /\ "CONNECT" \in portsc[0]
    /\ Access("w", "portsc", 0) \in io
    /\ <<"sleep", FALSE>> \in sync

\* a successful SetPortFeature(RESET) on port p has just armed a reset: it
\* took the reset branch (no hand-over) and recorded the deadline
ResetArmed(p) ==
    /\ PortFeatureRequest(op, "SetPortFeature", "RESET", p)
    /\ ret = "0"
    /\ "OWNER" \notin portsc[p]
    /\ reset_done[p] # 0

\* a GetPortStatus on port p has just reported reset change and left the
\* reset bit and the deadline clear
ResetCompleted(p) ==
    /\ PortFeatureRequest(op, "GetPortStatus", "", p)
    /\ ret = "0"
    /\ "C_RESET" \in buf.status
    /\ "RESET" \notin portsc[p]
    /\ reset_done[p] = 0

\* C36 as stated: on every controller variant, a reset armed by a successful
\* SetPortFeature(RESET) is followed by a GetPortStatus that reports reset
\* change and leaves the reset bit and the deadline clear, when the port
\* status keeps being read and the hardware ends the reset.
C36_AsStated == \A p \in {0} : ResetArmed(p) ~> ResetCompleted(p)

\* the change latch of the port register that ClearPortFeature(feature)
\* names, if it names one
NamedLatch(feature) ==
    CASE feature = "C_CONNECTION" -> {"CSC"}
      [] feature = "C_ENABLE" -> {"PEC"}
      [] feature = "C_OVER_CURRENT" -> {"OCC"}
      [] OTHER -> {}

\* C37 as stated: a ClearPortFeature request leaves every change latch that
\* is pending in the port register pending, except the one it names:
\* ClearPortFeature(ENABLE), (SUSPEND), (POWER), (C_SUSPEND) and (C_RESET)
\* clear none, and ClearPortFeature of one change bit clears no other.
C37_AsStated ==
    [][\A p \in ControllerPorts :
        (ValidPortRequest(op', "ClearPortFeature") /\ PortNumber(op') - 1 = p)
           => ((portsc[p] \cap PORT_RWC_BITS) \ NamedLatch(op'.wValue))
                 \subseteq portsc'[p]]_vars

\* C38 as stated: when a ClearPortFeature(SUSPEND) that slept with the lock
\* released wakes and writes the port register, the value it writes is
\* derived from the register as it is then, so the register ends as that
\* write leaves it and what other callers and the hardware did to the port
\* during the sleep is not undone.
C38_AsStated ==
    [][(/\ pending # NoPending
        /\ pending' = NoPending
        /\ pending.o.name = "ClearPortFeature")
        => \A p \in {pending.o.wIndex - 1} :
              portsc'[p] = PortWrite(portsc[p], ResumeValue(portsc[p]),
                                     dev[p], cfg.ppc, TRUE)]_vars

\* C39 as stated: the notifications the clients get alternate, starting
\* with SUSPEND: a SUSPEND is delivered only when none or an ACTIVE was
\* delivered last, an ACTIVE only when a SUSPEND was delivered last.
C39_AsStated ==
    [][/\ (notifier.worker = "suspend_notify"
              /\ notifier'.worker = "suspend_set")
          => notifier.notified \in {"none", "ACTIVE"}
       /\ (notifier.worker = "resume_notify"
              /\ notifier'.worker = "resume_sleep")
          => notifier.notified = "SUSPEND"]_vars

\* the last call made was state_suspend() and never is another one made
SuspendWasLast == <>[](notifier.request = "state_suspend")

\* the last call made was state_resume() and never is another one made
ResumeWasLast == <>[](notifier.request = "state_resume")

\* C40 as stated: the last request wins.  When state_suspend() is the last
\* call made, the notifier ends suspended with SUSPEND the last notification
\* delivered; when state_resume() is the last call made, it ends active with
\* no suspend work pending.
C40_AsStated ==
    /\ SuspendWasLast
          => <>[](/\ notifier.state_suspended
                  /\ notifier.notified = "SUSPEND")
    /\ ResumeWasLast
          => <>[](/\ ~notifier.state_suspended
                  /\ notifier.suspend_work = "idle")

====
